---- MODULE Spec2Model ----
(***************************************************************************)
(* Model of qis/portfolio/portfolio_data.py: the PortfolioData aggregate,  *)
(* the derivation of instrument_pnl in __post_init__, and the realized-P&L *)
(* average-cost recurrence compute_realized_pnl with its method wrapper.   *)
(*                                                                         *)
(* Numbers.  A float is modelled as an exact extended rational <<n, d>>:   *)
(* d > 0 is the finite value n/d in lowest terms, <<1,0>> is +inf,         *)
(* <<-1,0>> is -inf and <<0,0>> is NaN, with the IEEE-754 rules for the    *)
(* special values (NaN absorbs, inf - inf = 0 * inf = 0/0 = NaN,           *)
(* x/0 = +-inf, every comparison with NaN is false).  Rounding and the     *)
(* sign of zero are not modelled.                                          *)
(*                                                                         *)
(* Quantities.  Held units (and what is linear in them: trades and P&L)    *)
(* are counted in ticks of 5e-17, so that the absolute threshold 1e-16 of  *)
(* the recurrence is the integer EPS = 2 ticks and unit changes inside,    *)
(* on and outside the no-trade band are all representable.  Apart from     *)
(* the comparisons with the threshold the recurrence is homogeneous in     *)
(* the unit scale.  The default holding of __post_init__, 1.0 unit per     *)
(* instrument, is 2e16 ticks and beyond the 32-bit integers of TLC: the    *)
(* constructor is always given units.                                      *)
(*                                                                         *)
(* Indices.  Time steps are 0-based as in the source: row t of a matrix M  *)
(* is M[t + 1], and At(M, t, i) is M[t, i].                                *)
(***************************************************************************)
EXTENDS Integers, Sequences, FiniteSets, TLC

VARIABLES
    pc,                 \* position: "post_init", "ready", "loop", "done", "returned"
    nav,                \* PortfolioData.nav, one value per time step
    prices,             \* PortfolioData.prices  [time x instrument]
    units,              \* PortfolioData.units   [time x instrument]
    weights,            \* PortfolioData.weights [time x instrument]
    instrument_pnl,     \* PortfolioData.instrument_pnl
    pnl_given,          \* whether instrument_pnl was passed to the constructor
    realized_costs,     \* PortfolioData.realized_costs
    group_data,         \* PortfolioData.group_data: instrument -> group label
    group_order,        \* PortfolioData.group_order
    benchmark_prices,   \* PortfolioData.benchmark_prices
    idx,                \* loop index of compute_realized_pnl
    avg_costs,          \* locals of compute_realized_pnl: the four output arrays
    realized_pnl,
    mtm_pnl,
    trades,
    zero_div,           \* the cells [t, i] where np.true_divide had a zero divisor
    result,             \* what PortfolioData.compute_realized_pnl returned
    view,               \* the last call on the object other than the above
    files               \* the saved datasets: directory -> ticker -> datasets

fields == <<nav, prices, units, weights, instrument_pnl, realized_costs,
            group_data, group_order, benchmark_prices>>

locals == <<idx, avg_costs, realized_pnl, mtm_pnl, trades, zero_div>>

vars == <<pc, fields, pnl_given, locals, result, view, files>>

----------------------------------------------------------------------------
(* Bounds of the checked instances.                                        *)

MaxT == 4
ClosedT == 5
DepT == 3
PnlT == 3
ObjT == 3
GrpT == 2
TrnT == 3
AttT == 3
PerT == 4

----------------------------------------------------------------------------
(* Extended rational arithmetic (IEEE-754 special values, exact otherwise) *)

Abs(x) == IF x < 0 THEN -x ELSE x

Sign(x) == IF x > 0 THEN 1 ELSE IF x < 0 THEN -1 ELSE 0

RECURSIVE GCD(_, _)
GCD(a, b) == IF b = 0 THEN a ELSE GCD(b, a % b)

Norm(n, d) ==
    IF d = 0 THEN <<Sign(n), 0>>
    ELSE IF d = 1 THEN <<n, 1>>
    ELSE LET g == GCD(Abs(n), d) IN <<n \div g, d \div g>>

Num(k) == <<k, 1>>
NaN == <<0, 0>>
PInf == <<1, 0>>
NInf == <<-1, 0>>
Zero == <<0, 1>>
One == <<1, 1>>

IsNaN(a) == a = NaN
IsFinite(a) == a[2] # 0

Neg(a) == <<-a[1], a[2]>>

Add(a, b) ==
    IF a[2] = 0 \/ b[2] = 0
    THEN IF IsNaN(a) \/ IsNaN(b) THEN NaN
         ELSE IF a[2] = 0 /\ b[2] = 0 THEN (IF a = b THEN a ELSE NaN)
         ELSE IF a[2] = 0 THEN a ELSE b
    ELSE Norm(a[1] * b[2] + b[1] * a[2], a[2] * b[2])

Sub(a, b) == Add(a, Neg(b))

Mul(a, b) == Norm(a[1] * b[1], a[2] * b[2])

Recip(a) ==
    IF a[1] > 0 THEN <<a[2], a[1]>>
    ELSE IF a[1] < 0 THEN <<-a[2], -a[1]>>
    ELSE IF a[2] = 0 THEN NaN ELSE PInf

Div(a, b) == Mul(a, Recip(b))

Greater(a, b) ==
    /\ ~IsNaN(a)
    /\ ~IsNaN(b)
    /\ IF a[2] = 0 \/ b[2] = 0
       THEN (a = PInf /\ b # PInf) \/ (b = NInf /\ a # NInf)
       ELSE a[1] * b[2] > b[1] * a[2]

Less(a, b) == Greater(b, a)

----------------------------------------------------------------------------
(* numpy on rows (1-d arrays over the instruments) and pandas on frames     *)

None == <<>>

NpZeros(row) == [i \in DOMAIN row |-> Zero]

NpZerosLike(m) == [t \in DOMAIN m |-> NpZeros(m[t])]

NpFull(m, v) == [t \in DOMAIN m |-> [i \in DOMAIN m[t] |-> v]]

VecNeg(a) == [i \in DOMAIN a |-> Neg(a[i])]
VecAdd(a, b) == [i \in DOMAIN a |-> Add(a[i], b[i])]
VecSub(a, b) == [i \in DOMAIN a |-> Sub(a[i], b[i])]
VecMul(a, b) == [i \in DOMAIN a |-> Mul(a[i], b[i])]
VecDiv(a, b) == [i \in DOMAIN a |-> Div(a[i], b[i])]

NpGreater(a, c) == [i \in DOMAIN a |-> Greater(a[i], c)]
NpLess(a, c) == [i \in DOMAIN a |-> Less(a[i], c)]

NpWhere(cond, x, y) == [i \in DOMAIN cond |-> IF cond[i] THEN x[i] ELSE y[i]]

At(m, t, i) == m[t + 1][i]

NumRows(m) == Len(m)

----------------------------------------------------------------------------
(* compute_realized_pnl: the numba kernel, one operator per statement       *)

\* 1e-16 in ticks of 5e-17
EPS == 2

\* variant: any positive holding counts as held (threshold 0 instead of 1e-16)
AvgCostsFirst_AnyPositive(price1, unit1) ==
    NpWhere(NpGreater(unit1, Zero), price1, NpZeros(price1))

AvgCostsFirst(price1, unit1) ==
    NpWhere(NpGreater(unit1, Num(EPS)), price1, NpZeros(price1))

\* variant: the step is valued at the latest price of the input
Price1_Latest(p, k) == p[Len(p)]

\* zip(prices, units) at iteration k
Price1(p, k) == p[k + 1]

Unit1(u, k) == u[k + 1]

Unit0(u, k) == u[k]

\* variant: the average cost of the first step, whatever happened since
AvgCosts0_Initial(avg, k) == avg[1]

AvgCosts0(avg, k) == avg[k]

\* variant: whatever is not a sell counts as a purchase
IsPurchase_NotSell(delta) == NpGreater(delta, Num(-EPS))

IsPurchase(delta) == NpGreater(delta, Num(EPS))

IsSell(delta) == NpLess(delta, Num(-EPS))

\* variant: the sign of the sold quantity is not flipped
RealizedPnlRow_Unsigned(delta, price1, avg_costs0) ==
    NpWhere(NpLess(delta, Num(-EPS)),
            VecMul(delta, VecSub(price1, avg_costs0)),
            NpZeros(price1))

RealizedPnlRow(delta, price1, avg_costs0) ==
    NpWhere(IsSell(delta),
            VecMul(VecNeg(delta), VecSub(price1, avg_costs0)),
            NpZeros(price1))

\* variant: the plain mean of the price and the previous average cost
WeightedAvgCost_Unweighted(delta, price1, unit0, avg_costs0, unit1) ==
    VecDiv(VecAdd(price1, avg_costs0), NpFull(<<price1>>, Num(2))[1])

\* np.true_divide(...) is an argument of np.where: it is evaluated for every
\* instrument, whatever is_purchase says
WeightedAvgCost(delta, price1, unit0, avg_costs0, unit1) ==
    VecDiv(VecAdd(VecMul(delta, price1), VecMul(unit0, avg_costs0)), unit1)

\* variant: the cost basis is cleared when the position is flat after the step
AvgCostsRow_ResetWhenFlat(delta, price1, unit0, avg_costs0, unit1) ==
    NpWhere(NpGreater(delta, Num(EPS)),
            VecDiv(VecAdd(VecMul(delta, price1), VecMul(unit0, avg_costs0)), unit1),
            NpWhere([i \in DOMAIN unit1 |-> unit1[i] = Zero], NpZeros(unit1), avg_costs0))

\* variant: a purchase from a flat position starts a fresh cost basis
AvgCostsRow_FreshWhenFlat(delta, price1, unit0, avg_costs0, unit1) ==
    NpWhere(NpGreater(delta, Num(EPS)),
            NpWhere([i \in DOMAIN unit0 |-> unit0[i] = Zero], price1,
                    VecDiv(VecAdd(VecMul(delta, price1), VecMul(unit0, avg_costs0)),
                           unit1)),
            avg_costs0)

AvgCostsRow(delta, price1, unit0, avg_costs0, unit1) ==
    NpWhere(IsPurchase(delta),
            WeightedAvgCost(delta, price1, unit0, avg_costs0, unit1),
            avg_costs0)

\* variant: the realized part is not taken out
MtmPnlRow_Gross(unit0, price1, avg_costs0, realized) ==
    VecMul(unit0, VecSub(price1, avg_costs0))

MtmPnlRow(unit0, price1, avg_costs0, realized) ==
    VecSub(VecMul(unit0, VecSub(price1, avg_costs0)), realized)

\* variant: a change inside the no-trade band is reported as no trade
TradesRow_Banded(delta) ==
    NpWhere([i \in DOMAIN delta |->
                Greater(delta[i], Num(EPS)) \/ Less(delta[i], Num(-EPS))],
            delta, NpZeros(delta))

TradesRow(delta) == delta

\* the instruments whose division at this step has a zero divisor
ZeroDivisors(k, unit1) == {<<k, i>> : i \in {j \in DOMAIN unit1 : unit1[j] = Zero}}

SetRow(m, k, row) == [m EXCEPT ![k + 1] = row]

\* the state of a call after np.zeros_like x 4, before the first iteration
Alloc(p) ==
    [idx |-> 0, avg_costs |-> NpZerosLike(p), realized_pnl |-> NpZerosLike(p),
     mtm_pnl |-> NpZerosLike(p), trades |-> NpZerosLike(p), zero_div |-> {}]

\* one iteration of the for loop on a call state st, reading the inputs p, u
LoopBody(st, p, u) ==
    LET k == st.idx
        price1 == Price1(p, k)
        unit1 == Unit1(u, k)
    IN  IF k = 0
        THEN [st EXCEPT !.idx = 1,
                        !.avg_costs = SetRow(@, 0, AvgCostsFirst(price1, unit1))]
        ELSE LET unit0 == Unit0(u, k)
                 avg_costs0 == AvgCosts0(st.avg_costs, k)
                 delta == VecSub(unit1, unit0)
                 realized == RealizedPnlRow(delta, price1, avg_costs0)
             IN  [idx |-> k + 1,
                  realized_pnl |-> SetRow(st.realized_pnl, k, realized),
                  avg_costs |-> SetRow(st.avg_costs, k,
                                  AvgCostsRow(delta, price1, unit0, avg_costs0, unit1)),
                  mtm_pnl |-> SetRow(st.mtm_pnl, k,
                                  MtmPnlRow(unit0, price1, avg_costs0, realized)),
                  trades |-> SetRow(st.trades, k, TradesRow(delta)),
                  zero_div |-> st.zero_div \cup ZeroDivisors(k, unit1)]

RECURSIVE RunLoop(_, _, _)
RunLoop(st, p, u) ==
    IF st.idx = NumRows(p) THEN st ELSE RunLoop(LoopBody(st, p, u), p, u)

\* the kernel as a function of its two arguments
ComputeRealizedPnl(p, u) == RunLoop(Alloc(p), p, u)

----------------------------------------------------------------------------
(* PortfolioData.compute_realized_pnl: the method around the kernel         *)

\* pandas cumsum(axis=0), skipna: a NaN stays NaN in place and is left out of
\* the running sum
RECURSIVE CumsumCol(_, _, _)
CumsumCol(col, k, acc) ==
    IF k > Len(col) THEN <<>>
    ELSE IF IsNaN(col[k]) THEN <<NaN>> \o CumsumCol(col, k + 1, acc)
    ELSE <<Add(acc, col[k])>> \o CumsumCol(col, k + 1, Add(acc, col[k]))

Column(m, i) == [t \in DOMAIN m |-> m[t][i]]

PdCumsum(m) ==
    IF m = <<>> THEN <<>>
    ELSE [t \in DOMAIN m |->
            [i \in DOMAIN m[t] |-> CumsumCol(Column(m, i), 1, Zero)[t]]]

PdAdd(a, b) == [t \in DOMAIN a |-> VecAdd(a[t], b[t])]

\* variant: the realized P&L is returned per step, not accumulated
MethodResult_PerStep(st) ==
    [avg_costs |-> st.avg_costs, realized_pnl |-> st.realized_pnl,
     mtm_pnl |-> st.mtm_pnl, total_pnl |-> PdAdd(st.realized_pnl, st.mtm_pnl),
     trades |-> st.trades]

MethodResult(st) ==
    LET cum == PdCumsum(st.realized_pnl)
    IN  [avg_costs |-> st.avg_costs, realized_pnl |-> cum, mtm_pnl |-> st.mtm_pnl,
         total_pnl |-> PdAdd(cum, st.mtm_pnl), trades |-> st.trades]

NoResult ==
    [avg_costs |-> <<>>, realized_pnl |-> <<>>, mtm_pnl |-> <<>>,
     total_pnl |-> <<>>, trades |-> <<>>]

----------------------------------------------------------------------------
(* PortfolioData.__post_init__                                              *)

NaNRow(row) == [i \in DOMAIN row |-> NaN]

\* DataFrame.shift(1): the first row is missing, row t is the old row t - 1
PdShift1(m) == [t \in DOMAIN m |-> IF t = 1 THEN NaNRow(m[1]) ELSE m[t - 1]]

\* DataFrame.pct_change(fill_method=None): data / data.shift(1) - 1
PdPctChange(m) ==
    LET prev == PdShift1(m)
    IN  [t \in DOMAIN m |->
            [i \in DOMAIN m[t] |-> Sub(Div(m[t][i], prev[t][i]), One)]]

PdMultiply(a, b) == [t \in DOMAIN a |-> VecMul(a[t], b[t])]

PdFillna(m, v) ==
    [t \in DOMAIN m |-> [i \in DOMAIN m[t] |-> IF IsNaN(m[t][i]) THEN v ELSE m[t][i]]]

\* variant: the weight of the same step is used
LaggedWeights_SameStep(w) == w

LaggedWeights(w) == PdShift1(w)

DerivedInstrumentPnl(p, w) ==
    PdFillna(PdMultiply(PdPctChange(p), LaggedWeights(w)), Zero)

\* Series.to_frame(): one column
ToFrame(series) == [t \in DOMAIN series |-> <<series[t]>>]

\* Series.unique(): the distinct values in order of first appearance
RECURSIVE Unique(_)
Unique(s) ==
    IF s = <<>> THEN <<>>
    ELSE LET front == Unique(SubSeq(s, 1, Len(s) - 1))
             last == s[Len(s)]
         IN  IF \E k \in DOMAIN front : front[k] = last THEN front
             ELSE Append(front, last)

\* a benchmark frame carries its own time index: [index, rows], index ascending;
\* the portfolio's frames are indexed by the time steps 0 .. T-1 of nav
\* reindex(index=nav.index, method='ffill'): at each step the last row
\* observed at or before it, a missing row where there is none
ReindexFfill(bm, n) ==
    [t \in 1..n |->
        LET seen == {k \in DOMAIN bm.index : bm.index[k] <= t - 1}
        IN  IF seen = {} THEN NaNRow(bm.rows[1])
            ELSE bm.rows[CHOOSE k \in seen : \A j \in seen : j <= k]]

NoBenchmark == [index |-> <<>>, rows |-> <<>>]

\* variant: the supplied rows are taken by position, without alignment
AlignBenchmark_ByPosition(bm, n) ==
    [index |-> [t \in 1..n |-> t - 1],
     rows |-> [t \in 1..n |->
                 IF t <= Len(bm.rows) THEN bm.rows[t] ELSE NaNRow(bm.rows[1])]]

\* benchmark_prices.reindex(index=self.nav.index, method='ffill')
AlignBenchmark(bm, n) ==
    [index |-> [t \in 1..n |-> t - 1], rows |-> ReindexFfill(bm, n)]

\* variant: without an explicit group_order the order is left empty
GroupOrderOf_EmptyWhenNone(gd, go) == IF go = None THEN <<>> ELSE go

\* if group_order is None: group_order = list(group_data.unique())
GroupOrderOf(gd, go) == IF go = None THEN Unique(gd) ELSE go

\* a call on the object as the caller sees it: the method, the arguments
\* passed and the value returned
Call(name, args, value) == [call |-> name, args |-> args, value |-> value]

\* nav is given as a Series, and every frame on the index and columns of prices
PostInit ==
    /\ pc = "post_init"
    /\ units # None
    /\ LET prices1 == IF prices = None THEN ToFrame(nav) ELSE prices
           weights1 == IF weights = None THEN NpFull(prices1, One) ELSE weights
           group_data1 == IF group_data = None
                          THEN [i \in DOMAIN prices1[1] |-> i] ELSE group_data
       IN  /\ prices' = prices1
           /\ weights' = weights1
           /\ units' = units
           /\ instrument_pnl' = IF instrument_pnl = None
                                THEN DerivedInstrumentPnl(prices1, weights1)
                                ELSE instrument_pnl
           /\ realized_costs' = IF realized_costs = None
                                THEN NpFull(prices1, Zero) ELSE realized_costs
           /\ group_data' = group_data1
           /\ group_order' = GroupOrderOf(group_data1, group_order)
           /\ benchmark_prices' =
                 IF benchmark_prices = NoBenchmark THEN benchmark_prices
                 ELSE AlignBenchmark(benchmark_prices, Len(nav))
    /\ view' = Call("__init__", <<group_data, group_order, benchmark_prices>>, None)
    /\ pc' = "ready"
    /\ UNCHANGED <<nav, pnl_given, files, locals, result>>

----------------------------------------------------------------------------
(* The call PortfolioData.compute_realized_pnl(), time_period = None        *)

CallKernel ==
    /\ pc = "ready"
    /\ pc' = "loop"
    /\ LET st == Alloc(prices)
       IN  /\ idx' = st.idx
           /\ avg_costs' = st.avg_costs
           /\ realized_pnl' = st.realized_pnl
           /\ mtm_pnl' = st.mtm_pnl
           /\ trades' = st.trades
           /\ zero_div' = st.zero_div
    /\ UNCHANGED <<fields, pnl_given, files, result, view>>

CallState ==
    [idx |-> idx, avg_costs |-> avg_costs, realized_pnl |-> realized_pnl,
     mtm_pnl |-> mtm_pnl, trades |-> trades, zero_div |-> zero_div]

LoopStep ==
    /\ pc = "loop"
    /\ idx < NumRows(prices)
    /\ LET st == LoopBody(CallState, prices, units)
       IN  /\ idx' = st.idx
           /\ avg_costs' = st.avg_costs
           /\ realized_pnl' = st.realized_pnl
           /\ mtm_pnl' = st.mtm_pnl
           /\ trades' = st.trades
           /\ zero_div' = st.zero_div
    /\ UNCHANGED <<pc, fields, pnl_given, files, result, view>>

Return ==
    /\ pc = "loop"
    /\ idx = NumRows(prices)
    /\ result' = MethodResult(CallState)
    /\ pc' = "done"
    /\ UNCHANGED <<fields, pnl_given, files, locals, view>>

Next == PostInit \/ CallKernel \/ LoopStep \/ Return

----------------------------------------------------------------------------
(* Calls on the constructed object, one at a time: a setter or a getter    *)
(* is called when the object is "ready" and has "returned" with its value   *)
(* in view; the caller then takes the value and the object is ready for    *)
(* the next call.  The setters are set_benchmark_prices and the             *)
(* set_group_data that is in effect (the later of the two definitions in    *)
(* the class body).                                                         *)

\* no call has been made yet, or its value has been taken
NoView == [call |-> "", args |-> <<>>, value |-> <<>>]

\* the caller goes on after a call
Resume ==
    /\ pc = "returned"
    /\ pc' = "ready"
    /\ view' = NoView
    /\ UNCHANGED <<fields, pnl_given, files, locals, result>>

\* a benchmark Series carries [index, rows] with one number per row
SeriesToFrame(bm) == [index |-> bm.index, rows |-> ToFrame(bm.rows)]

\* what the constructor or the caller may pass as benchmark prices over a
\* portfolio of three or more steps: one benchmark, observed before the first
\* step and in the middle, or only after the first step, or (as a Series) at
\* the first two steps
BenchmarkFrames ==
    {[index |-> <<-1, 1>>, rows |-> <<<<Num(100)>>, <<Num(110)>>>>],
     [index |-> <<1, 2>>, rows |-> <<<<Num(100)>>, <<Num(90)>>>>]}

BenchmarkSeries ==
    {[index |-> <<0, 1>>, rows |-> <<Num(50), Num(55)>>],
     [index |-> <<0, 2>>, rows |-> <<Num(50), NaN>>]}

SetBenchmarkPrices ==
    /\ pc = "ready"
    /\ \E is_series \in BOOLEAN :
         \E bm \in IF is_series THEN BenchmarkSeries ELSE BenchmarkFrames :
            LET frame == IF is_series THEN SeriesToFrame(bm) ELSE bm
            IN  /\ benchmark_prices' = AlignBenchmark(frame, Len(nav))
                /\ view' = Call("set_benchmark_prices", <<frame>>, None)
    /\ pc' = "returned"
    /\ UNCHANGED <<nav, prices, units, weights, instrument_pnl, realized_costs,
                   group_data, group_order, pnl_given, files, locals, result>>

\* group labels a caller uses, and the explicit orders it passes: complete
\* in either order, or naming one label only
GroupLabels == {1, 2}

GroupOrders == {<<1, 2>>, <<2, 1>>, <<2>>}

\* variant: regrouping also forgets the benchmark
SetGroupData_DropsBenchmark ==
    /\ pc = "ready"
    /\ \E gd \in [DOMAIN prices[1] -> GroupLabels], go \in {None} \cup GroupOrders :
         /\ group_data' = gd
         /\ group_order' = GroupOrderOf(gd, go)
         /\ view' = Call("set_group_data", <<gd, go>>, None)
    /\ benchmark_prices' = NoBenchmark
    /\ pc' = "returned"
    /\ UNCHANGED <<nav, prices, units, weights, instrument_pnl, realized_costs,
                   pnl_given, files, locals, result>>

\* variant: the first of the two definitions, which keeps the old
\* group_order when it is given none
SetGroupData_FirstDefinition ==
    /\ pc = "ready"
    /\ \E gd \in [DOMAIN prices[1] -> GroupLabels], go \in {None} \cup GroupOrders :
         /\ group_data' = gd
         /\ group_order' = IF go = None THEN group_order ELSE go
         /\ view' = Call("set_group_data", <<gd, go>>, None)
    /\ pc' = "returned"
    /\ UNCHANGED <<nav, prices, units, weights, instrument_pnl, realized_costs,
                   benchmark_prices, pnl_given, files, locals, result>>

SetGroupData ==
    /\ pc = "ready"
    /\ \E gd \in [DOMAIN prices[1] -> GroupLabels], go \in {None} \cup GroupOrders :
         /\ group_data' = gd
         /\ group_order' = GroupOrderOf(gd, go)
         /\ view' = Call("set_group_data", <<gd, go>>, None)
    /\ pc' = "returned"
    /\ UNCHANGED <<nav, prices, units, weights, instrument_pnl, realized_costs,
                   benchmark_prices, pnl_given, files, locals, result>>

----------------------------------------------------------------------------
(* Derived views.  A view is a table [columns, rows]; column labels are     *)
(* numbers: instruments and groups are positive, TotalColumn labels a total *)
(* ('Total' in get_instruments_pnl, str(self.nav.name) elsewhere).  Every   *)
(* getter is called with time_period = None.                                *)

TotalColumn == 0

Frame(columns, rows) == [columns |-> columns, rows |-> rows]

\* the column labels of a field: the instruments, in the order of prices
Instruments(m) == [i \in DOMAIN m[1] |-> i]

\* np.sum over the listed columns of a row: a missing value propagates
RECURSIVE NpSum(_, _)
NpSum(row, cols) ==
    IF cols = <<>> THEN Zero ELSE Add(row[Head(cols)], NpSum(row, Tail(cols)))

\* np.nansum, and DataFrame.sum(axis=1) with its default skipna: a missing
\* value counts as zero
RECURSIVE NpNanSum(_, _)
NpNanSum(row, cols) ==
    IF cols = <<>> THEN Zero
    ELSE Add(IF IsNaN(row[Head(cols)]) THEN Zero ELSE row[Head(cols)],
             NpNanSum(row, Tail(cols)))

\* variant: the aggregator is left at the mean of the values present
Agg_NanMean(agg_func, row, cols) ==
    LET present == SelectSeq(cols, LAMBDA c : ~IsNaN(row[c]))
    IN  IF present = <<>> THEN NaN ELSE Div(NpSum(row, present), Num(Len(present)))

\* agg_func=np.sum in get_group_navs, agg_func=np.nansum elsewhere
Agg(agg_func, row, cols) ==
    IF agg_func = "np.sum" THEN NpSum(row, cols) ELSE NpNanSum(row, cols)

\* the instruments of a group, in column order
GroupTickers(gd, g) == SelectSeq(Instruments(<<gd>>), LAMBDA i : gd[i] = g)

\* dfg.agg_df_by_groups_ax1: one column per label of group_order, in that
\* order, aggregating the group's instruments (missing for a group without
\* instruments); instruments of unlisted groups are left out; a total column,
\* if asked for, comes first and aggregates all instruments.  total_column is
\* None or the one-element list of its label.
AggDfByGroupsAx1(df, gd, agg_func, total_column, go) ==
    Frame(total_column \o go,
          [t \in DOMAIN df |->
              (IF total_column = None THEN <<>>
               ELSE <<Agg(agg_func, df[t], Instruments(df))>>)
              \o [k \in DOMAIN go |->
                    IF GroupTickers(gd, go[k]) = <<>> THEN NaN
                    ELSE Agg(agg_func, df[t], GroupTickers(gd, go[k]))]])

\* str(self.nav.name) if add_total else None
TotalIf(add_total) == IF add_total THEN <<TotalColumn>> ELSE None

\* get_portfolio_nav(time_period=None, freq=None): self.nav.copy()
PortfolioNav(n) == n

GetPortfolioNav ==
    /\ pc = "ready"
    /\ view' = Call("get_portfolio_nav", <<>>, PortfolioNav(nav))
    /\ pc' = "returned"
    /\ UNCHANGED <<fields, pnl_given, files, locals, result>>

\* pnl.insert(loc=0, value=pnl.sum(1), column='Total') on the copy
WithTotalFirst(m) ==
    Frame(<<TotalColumn>> \o Instruments(m),
          [t \in DOMAIN m |-> <<NpNanSum(m[t], Instruments(m))>> \o m[t]])

\* get_instruments_pnl(add_total, time_period=None, is_compounded=False)
InstrumentsPnl(ip, add_total) ==
    IF add_total THEN WithTotalFirst(ip) ELSE Frame(Instruments(ip), ip)

\* variant: the total is inserted into the field itself, not into a copy
GetInstrumentsPnl_NoCopy ==
    /\ pc = "ready"
    /\ \E add_total \in BOOLEAN :
         /\ view' = Call("get_instruments_pnl", <<add_total>>,
                         InstrumentsPnl(instrument_pnl, add_total))
         /\ instrument_pnl' = InstrumentsPnl(instrument_pnl, add_total).rows
    /\ pc' = "returned"
    /\ UNCHANGED <<nav, prices, units, weights, realized_costs, group_data,
                   group_order, benchmark_prices, pnl_given, files, locals, result>>

GetInstrumentsPnl ==
    /\ pc = "ready"
    /\ \E add_total \in BOOLEAN :
         view' = Call("get_instruments_pnl", <<add_total>>,
                      InstrumentsPnl(instrument_pnl, add_total))
    /\ pc' = "returned"
    /\ UNCHANGED <<fields, pnl_given, files, locals, result>>

\* get_exposures(time_period=None, is_grouped, add_total)
Exposures(w, gd, go, is_grouped, add_total) ==
    IF is_grouped
    THEN AggDfByGroupsAx1(w, gd, "np.nansum", TotalIf(add_total), go)
    ELSE Frame(Instruments(w), w)

GetExposures ==
    /\ pc = "ready"
    /\ \E is_grouped \in BOOLEAN, add_total \in BOOLEAN :
         view' = Call("get_exposures", <<is_grouped, add_total>>,
                      Exposures(weights, group_data, group_order, is_grouped, add_total))
    /\ pc' = "returned"
    /\ UNCHANGED <<fields, pnl_given, files, locals, result>>

\* an optional number is None or the one-element list of its value
RollPeriodDefault == 260

RollPeriods == {None, <<2>>, <<RollPeriodDefault>>}

\* a resampling frequency, as the number of steps in a period
Freqs == {None, <<2>>}

NumAbs(a) == IF Less(a, Zero) THEN Neg(a) ELSE a

PdAbs(m) == [t \in DOMAIN m |-> [i \in DOMAIN m[t] |-> NumAbs(m[t][i])]]

\* DataFrame.diff(1): the first row is missing
PdDiff1(m) ==
    LET prev == PdShift1(m)
    IN  [t \in DOMAIN m |-> VecSub(m[t], prev[t])]

\* DataFrame.sum(axis=1), skipna
PdSumAx1(m) == [t \in DOMAIN m |-> NpNanSum(m[t], Instruments(m))]

\* DataFrame.divide(series.to_numpy(), axis=0): each row by its own divisor;
\* a zero divisor gives inf or, for 0/0, a missing value
PdDivideAx0(m, divisor) ==
    [t \in DOMAIN m |-> [i \in DOMAIN m[t] |-> Div(m[t][i], divisor[t])]]

\* rolling(w).sum(): missing until w rows are there and whenever a value in
\* the window is missing; pandas takes an infinite value as missing here
RECURSIVE SumRows(_, _, _, _)
SumRows(rows, from, to, c) ==
    IF from > to THEN Zero ELSE Add(rows[from][c], SumRows(rows, from + 1, to, c))

PdRollingSum(rows, w) ==
    [t \in DOMAIN rows |->
        [c \in DOMAIN rows[t] |->
            IF t < w \/ \E k \in (t - w + 1)..t : ~IsFinite(rows[k][c]) THEN NaN
            ELSE SumRows(rows, t - w + 1, t, c)]]

\* resample(freq).sum(): one row per period of f steps, skipna
RECURSIVE NanSumRows(_, _, _, _)
NanSumRows(rows, from, to, c) ==
    IF from > to THEN Zero
    ELSE Add(IF IsNaN(rows[from][c]) THEN Zero ELSE rows[from][c],
             NanSumRows(rows, from + 1, to, c))

PdResampleSum(rows, f) ==
    [b \in 1..((Len(rows) + f - 1) \div f) |->
        [c \in DOMAIN rows[1] |->
            NanSumRows(rows, (b - 1) * f + 1,
                       IF b * f < Len(rows) THEN b * f ELSE Len(rows), c)]]

\* the tail shared by get_turnover and get_costs
Rolled(frame, roll_period, freq) ==
    IF roll_period # None THEN Frame(frame.columns, PdRollingSum(frame.rows, roll_period[1]))
    ELSE IF freq # None THEN Frame(frame.columns, PdResampleSum(frame.rows, freq[1]))
    ELSE frame

\* np.nansum(df, axis=1) as a Series named after nav
AggSeries(m) == Frame(<<TotalColumn>>, [t \in DOMAIN m |-> <<PdSumAx1(m)[t]>>])

\* pd.concat([df.sum(axis=1).rename(self.nav.name), df], axis=1) or df
WithTotalIf(m, add_total) ==
    IF add_total THEN WithTotalFirst(m) ELSE Frame(Instruments(m), m)

\* more columns than this are always grouped
ManyColumns == 10

\* variant: the traded notional is signed
TradedNotional_Signed(u, p) == PdMultiply(PdDiff1(u), p)

\* (self.units.diff(1).abs()).multiply(self.prices)
TradedNotional(u, p) == PdMultiply(PdAbs(PdDiff1(u)), p)

\* self.units.multiply(self.prices).abs().sum(axis=1)
AbsExposure(u, p) == PdSumAx1(PdAbs(PdMultiply(u, p)))

InstrumentTurnover(u, p) == PdDivideAx0(TradedNotional(u, p), AbsExposure(u, p))

\* get_turnover(is_agg, is_grouped, time_period=None, roll_period, add_total, freq)
Turnover(u, p, gd, go, is_agg, is_grouped, roll_period, add_total, freq) ==
    LET turnover == InstrumentTurnover(u, p)
    IN  Rolled(IF is_agg THEN AggSeries(turnover)
               ELSE IF is_grouped \/ Len(turnover[1]) > ManyColumns
               THEN AggDfByGroupsAx1(turnover, gd, "np.nansum", TotalIf(add_total), go)
               ELSE WithTotalIf(turnover, add_total),
               roll_period, freq)

GetTurnover ==
    /\ pc = "ready"
    /\ \E is_agg \in BOOLEAN, is_grouped \in BOOLEAN, add_total \in BOOLEAN,
          roll_period \in RollPeriods, freq \in Freqs :
         view' = Call("get_turnover", <<is_agg, is_grouped, roll_period, add_total, freq>>,
                      Turnover(units, prices, group_data, group_order,
                               is_agg, is_grouped, roll_period, add_total, freq))
    /\ pc' = "returned"
    /\ UNCHANGED <<fields, pnl_given, files, locals, result>>

\* get_costs(is_agg, is_grouped, time_period=None, add_total, is_norm_costs,
\* roll_period)
Costs(rc, n, gd, go, is_agg, is_grouped, add_total, is_norm_costs, roll_period) ==
    LET costs == IF is_norm_costs THEN PdDivideAx0(rc, n) ELSE rc
    IN  Rolled(IF is_agg THEN AggSeries(costs)
               ELSE IF is_grouped
               THEN AggDfByGroupsAx1(costs, gd, "np.nansum", TotalIf(add_total), go)
               ELSE WithTotalIf(costs, add_total),
               roll_period, None)

GetCosts ==
    /\ pc = "ready"
    /\ \E is_agg \in BOOLEAN, is_grouped \in BOOLEAN, add_total \in BOOLEAN,
          is_norm_costs \in BOOLEAN, roll_period \in RollPeriods :
         view' = Call("get_costs",
                      <<is_agg, is_grouped, add_total, is_norm_costs, roll_period>>,
                      Costs(realized_costs, nav, group_data, group_order,
                            is_agg, is_grouped, add_total, is_norm_costs, roll_period))
    /\ pc' = "returned"
    /\ UNCHANGED <<fields, pnl_given, files, locals, result>>

\* get_group_navs: the instrument P&L aggregated by group, with a total
GroupedPnl(ip, gd, go) ==
    AggDfByGroupsAx1(InstrumentsPnl(ip, FALSE).rows, gd, "np.sum", <<TotalColumn>>, go)

\* ret.returns_to_nav: each column compounded from its first row, or, at a
\* constant trade level, accumulated onto 1
RECURSIVE NavCol(_, _, _, _)
NavCol(col, k, level, constant_trade_level) ==
    IF k > Len(col) THEN <<>>
    ELSE LET next == IF constant_trade_level THEN Add(level, col[k])
                     ELSE Mul(level, Add(One, col[k]))
         IN  <<next>> \o NavCol(col, k + 1, next, constant_trade_level)

ReturnsToNav(frame, constant_trade_level) ==
    Frame(frame.columns,
          [t \in DOMAIN frame.rows |->
              [c \in DOMAIN frame.rows[t] |->
                  NavCol(Column(frame.rows, c), 1, One, constant_trade_level)[t]]])

GetGroupNavs ==
    /\ pc = "ready"
    /\ \E constant_trade_level \in BOOLEAN :
         view' = Call("get_group_navs", <<constant_trade_level>>,
                      ReturnsToNav(GroupedPnl(instrument_pnl, group_data, group_order),
                                   constant_trade_level))
    /\ pc' = "returned"
    /\ UNCHANGED <<fields, pnl_given, files, locals, result>>

\* df[tickers]: the listed columns of each row
Take(m, tickers) == [t \in DOMAIN m |-> [k \in DOMAIN tickers |-> m[t][tickers[k]]]]

\* dfa.nansum_positive / dfa.nansum_negative: the sum of the positive, or of
\* the negative, values of the row
NanSumPositive(row) ==
    NpNanSum([c \in DOMAIN row |-> IF Greater(row[c], Zero) THEN row[c] ELSE Zero],
             Instruments(<<row>>))

NanSumNegative(row) ==
    NpNanSum([c \in DOMAIN row |-> IF Less(row[c], Zero) THEN row[c] ELSE Zero],
             Instruments(<<row>>))

\* dfa.nansum(df, axis=1)
DfaNanSum(row) == NpNanSum(row, Instruments(<<row>>))

AggColumns == <<"Total", "Net Long", "Net Short">>

\* variant: the short side is reported as a positive size
GroupAggExposures_ShortAsSize(exposures_by_inst) ==
    Frame(AggColumns,
          [t \in DOMAIN exposures_by_inst |->
              <<DfaNanSum(exposures_by_inst[t]), NanSumPositive(exposures_by_inst[t]),
                Neg(NanSumNegative(exposures_by_inst[t]))>>])

\* pd.concat([total, net_long, net_short], axis=1) of one group
GroupAggExposures(exposures_by_inst) ==
    Frame(AggColumns,
          [t \in DOMAIN exposures_by_inst |->
              <<DfaNanSum(exposures_by_inst[t]), NanSumPositive(exposures_by_inst[t]),
                NanSumNegative(exposures_by_inst[t])>>])

\* get_grouped_exposures(time_period=None): for each group of group_order,
\* in that order, the aggregate table and the group's instruments
GroupedExposures(w, gd, go) ==
    [groups |-> go,
     agg |-> [k \in DOMAIN go |-> GroupAggExposures(Take(w, GroupTickers(gd, go[k])))],
     by_inst |-> [k \in DOMAIN go |->
                    Frame(GroupTickers(gd, go[k]), Take(w, GroupTickers(gd, go[k])))]]

GetGroupedExposures ==
    /\ pc = "ready"
    /\ view' = Call("get_grouped_exposures", <<>>,
                    GroupedExposures(weights, group_data, group_order))
    /\ pc' = "returned"
    /\ UNCHANGED <<fields, pnl_given, files, locals, result>>

\* pnls.where(all_exposures > 0.0, other=0.0), and < 0.0
PnlPositiveExp(pnls, all_exposures) ==
    [t \in DOMAIN pnls |->
        [i \in DOMAIN pnls[t] |->
            IF Greater(all_exposures[t][i], Zero) THEN pnls[t][i] ELSE Zero]]

PnlNegativeExp(pnls, all_exposures) ==
    [t \in DOMAIN pnls |->
        [i \in DOMAIN pnls[t] |->
            IF Less(all_exposures[t][i], Zero) THEN pnls[t][i] ELSE Zero]]

\* get_grouped_cum_pnls(time_period=None)
GroupedCumPnls(ip, w, gd, go) ==
    LET pnls == PdFillna(InstrumentsPnl(ip, FALSE).rows, Zero)
        all_exposures == Exposures(w, gd, go, FALSE, TRUE).rows
        pnl_positive_exp == PnlPositiveExp(pnls, all_exposures)
        pnl_negative_exp == PnlNegativeExp(pnls, all_exposures)
    IN  [groups |-> go,
         agg |-> [k \in DOMAIN go |->
                    LET tickers == GroupTickers(gd, go[k])
                    IN  Frame(AggColumns,
                              PdCumsum([t \in DOMAIN pnls |->
                                  <<DfaNanSum(Take(pnls, tickers)[t]),
                                    DfaNanSum(Take(pnl_positive_exp, tickers)[t]),
                                    DfaNanSum(Take(pnl_negative_exp, tickers)[t])>>]))],
         by_inst |-> [k \in DOMAIN go |->
                        Frame(GroupTickers(gd, go[k]),
                              PdCumsum(Take(pnls, GroupTickers(gd, go[k]))))]]

GetGroupedCumPnls ==
    /\ pc = "ready"
    /\ view' = Call("get_grouped_cum_pnls", <<>>,
                    GroupedCumPnls(instrument_pnl, weights, group_data, group_order))
    /\ pc' = "returned"
    /\ UNCHANGED <<fields, pnl_given, files, locals, result>>

----------------------------------------------------------------------------
(* PortfolioData.compute_realized_pnl(time_period).  A time period is None  *)
(* or the pair of its first and last step.                                  *)

\* time_period.locate(df): the rows of the steps within the period
Locate(rows, time_period) ==
    IF time_period = None THEN rows
    ELSE SubSeq(rows, time_period[1] + 1, time_period[2] + 1)

\* variant: the realized P&L is accumulated over the whole history before
\* the period is cut out
PeriodResult_CumsumFirst(st, time_period) ==
    LET realized == Locate(PdCumsum(st.realized_pnl), time_period)
        mtm == Locate(st.mtm_pnl, time_period)
    IN  [avg_costs |-> Locate(st.avg_costs, time_period),
         realized_pnl |-> realized,
         mtm_pnl |-> mtm,
         total_pnl |-> PdAdd(realized, mtm),
         trades |-> Locate(st.trades, time_period)]

\* what the method returns from the arrays of the kernel: each is cut to
\* the period, then realized_pnl is accumulated and added to mtm_pnl
PeriodResult(st, time_period) ==
    LET realized == PdCumsum(Locate(st.realized_pnl, time_period))
        mtm == Locate(st.mtm_pnl, time_period)
    IN  [avg_costs |-> Locate(st.avg_costs, time_period),
         realized_pnl |-> realized,
         mtm_pnl |-> mtm,
         total_pnl |-> PdAdd(realized, mtm),
         trades |-> Locate(st.trades, time_period)]

\* the periods within the history, and no period
TimePeriods ==
    {None} \cup {<<a, b>> \in (0..(NumRows(prices) - 1)) \X (0..(NumRows(prices) - 1)) :
                    a <= b}

\* compute_realized_pnl(time_period): the kernel runs on the whole history
\* of prices and units
ComputeRealizedPnlIn ==
    /\ pc = "ready"
    /\ \E time_period \in TimePeriods :
         view' = Call("compute_realized_pnl", <<time_period>>,
                      PeriodResult(ComputeRealizedPnl(prices, units), time_period))
    /\ pc' = "returned"
    /\ UNCHANGED <<fields, pnl_given, files, locals, result>>

----------------------------------------------------------------------------
(* Plotting methods.  Of the axes a method draws on, the model keeps what   *)
(* was plotted (by name), the pivot prices of the regime shadows if any     *)
(* were added, and the exception the call ended with, if any.               *)

NoAxes == [drawn |-> <<>>, shadows |-> None, raised |-> ""]

Plotted(ax, what) == [ax EXCEPT !.drawn = Append(@, what)]

\* the benchmark columns a regime overlay may be asked for, and no overlay
RegimeBenchmarks == {None, <<1>>, <<2>>}

\* variant: without benchmark prices the overlay is skipped
AddRegimeShadowsOn_Skipping(ax, regime_benchmark, n) ==
    IF benchmark_prices = NoBenchmark THEN ax
    ELSE IF regime_benchmark \notin DOMAIN benchmark_prices.rows[1]
         THEN [ax EXCEPT !.raised = "KeyError"]
         ELSE [ax EXCEPT !.shadows =
                  <<Column(ReindexFfill(benchmark_prices, n), regime_benchmark)>>]

\* add_regime_shadows(ax, regime_benchmark, index) for an index of the n
\* steps of nav
AddRegimeShadowsOn(ax, regime_benchmark, n) ==
    IF benchmark_prices = NoBenchmark THEN [ax EXCEPT !.raised = "ValueError"]
    ELSE IF regime_benchmark \notin DOMAIN benchmark_prices.rows[1]
         THEN [ax EXCEPT !.raised = "KeyError"]
         ELSE [ax EXCEPT !.shadows =
                  <<Column(ReindexFfill(benchmark_prices, n), regime_benchmark)>>]

\* if regime_benchmark is not None: self.add_regime_shadows(...)
WithRegimeShadows(ax, regime_benchmark) ==
    IF regime_benchmark = None THEN ax
    ELSE AddRegimeShadowsOn(ax, regime_benchmark[1], Len(nav))

AddRegimeShadows ==
    /\ pc = "ready"
    /\ \E regime_benchmark \in RegimeBenchmarks \ {None} :
         view' = Call("add_regime_shadows", <<regime_benchmark>>,
                      AddRegimeShadowsOn(NoAxes, regime_benchmark[1], Len(nav)))
    /\ pc' = "returned"
    /\ UNCHANGED <<fields, pnl_given, files, locals, result>>

\* get_portfolio_nav_with_benchmark_rices or get_portfolio_nav
NavPlotted(add_benchmarks) ==
    IF add_benchmarks /\ benchmark_prices # NoBenchmark
    THEN "nav and benchmark_prices" ELSE "nav"

PlotNav ==
    /\ pc = "ready"
    /\ \E regime_benchmark \in RegimeBenchmarks, add_benchmarks \in BOOLEAN :
         view' = Call("plot_nav", <<regime_benchmark, add_benchmarks>>,
                      WithRegimeShadows(Plotted(NoAxes, NavPlotted(add_benchmarks)),
                                        regime_benchmark))
    /\ pc' = "returned"
    /\ UNCHANGED <<fields, pnl_given, files, locals, result>>

PlotGroupNav ==
    /\ pc = "ready"
    /\ \E regime_benchmark \in RegimeBenchmarks, add_benchmarks \in BOOLEAN :
         view' = Call("plot_group_nav", <<regime_benchmark, add_benchmarks>>,
                      WithRegimeShadows(
                          Plotted(NoAxes,
                                  IF add_benchmarks /\ benchmark_prices # NoBenchmark
                                  THEN "group_navs and benchmark_prices"
                                  ELSE "group_navs"),
                          regime_benchmark))
    /\ pc' = "returned"
    /\ UNCHANGED <<fields, pnl_given, files, locals, result>>

PlotRollingPerf ==
    /\ pc = "ready"
    /\ \E regime_benchmark \in RegimeBenchmarks, add_benchmarks \in BOOLEAN :
         view' = Call("plot_rolling_perf", <<regime_benchmark, add_benchmarks>>,
                      WithRegimeShadows(
                          Plotted(NoAxes, "rolling " \o NavPlotted(add_benchmarks)),
                          regime_benchmark))
    /\ pc' = "returned"
    /\ UNCHANGED <<fields, pnl_given, files, locals, result>>

\* plot_benchmark_betas(benchmark_prices, regime_benchmark, add_zero_line):
\* the zero line is drawn after the overlay, if that did not raise
PlotBenchmarkBetas ==
    /\ pc = "ready"
    /\ \E regime_benchmark \in RegimeBenchmarks, add_zero_line \in BOOLEAN :
         LET ax == WithRegimeShadows(Plotted(NoAxes, "benchmark betas"),
                                     regime_benchmark)
         IN  view' = Call("plot_benchmark_betas", <<regime_benchmark, add_zero_line>>,
                          IF add_zero_line /\ ax.raised = ""
                          THEN Plotted(ax, "zero line") ELSE ax)
    /\ pc' = "returned"
    /\ UNCHANGED <<fields, pnl_given, files, locals, result>>

----------------------------------------------------------------------------
(* Persistence: save and load.  A directory holds at most one set of        *)
(* datasets under a ticker.                                                 *)

\* the directory that fu.load_df_dict_from_csv reads when it is given no
\* local_path
DefaultPath == "default/"

LocalPaths == {DefaultPath, "other/"}

Tickers == {"a", "b"}

NoFile == [saved |-> FALSE, datasets |-> <<>>]

NoFiles == [d \in LocalPaths |-> [k \in Tickers |-> NoFile]]

\* a number as the text of a cell: a missing value is written as the empty
\* cell, any other value by its shortest exact text
ToCsv(x) == IF IsNaN(x) THEN [empty |-> TRUE, text |-> Zero]
            ELSE [empty |-> FALSE, text |-> x]

\* the text of a cell read back: the empty cell is a missing value
FromCsv(c) == IF c.empty THEN NaN ELSE c.text

FrameToCsv(m) == [t \in DOMAIN m |-> [i \in DOMAIN m[t] |-> ToCsv(m[t][i])]]

FrameFromCsv(m) == [t \in DOMAIN m |-> [i \in DOMAIN m[t] |-> FromCsv(m[t][i])]]

\* datasets of save, as fu.save_df_dict_to_csv writes them (group_data is
\* never None once __post_init__ has run); no group_order is written
SavedDatasets ==
    [nav |-> FrameToCsv(ToFrame(nav)), prices |-> FrameToCsv(prices),
     weights |-> FrameToCsv(weights), units |-> FrameToCsv(units),
     instrument_pnl |-> FrameToCsv(instrument_pnl),
     realized_costs |-> FrameToCsv(realized_costs),
     group_data |-> group_data]

\* save(ticker, local_path)
Save ==
    /\ pc = "ready"
    /\ \E ticker \in Tickers, local_path \in LocalPaths :
         /\ files' = [files EXCEPT ![local_path][ticker] =
                         [saved |-> TRUE, datasets |-> SavedDatasets]]
         /\ view' = Call("save", <<ticker, local_path>>, None)
    /\ pc' = "returned"
    /\ UNCHANGED <<fields, pnl_given, locals, result>>

\* if isinstance(self.nav, pd.DataFrame): self.nav = self.nav.iloc[:, 0]
FirstColumn(m) == [t \in DOMAIN m |-> m[t][1]]

\* cls(**datasets): the fields of the object that __post_init__ leaves,
\* every dataset but group_order and benchmark_prices being given
Constructed_FromDatasets(d) ==
    [nav |-> FirstColumn(FrameFromCsv(d.nav)),
     prices |-> FrameFromCsv(d.prices),
     units |-> FrameFromCsv(d.units),
     weights |-> FrameFromCsv(d.weights),
     instrument_pnl |-> FrameFromCsv(d.instrument_pnl),
     realized_costs |-> FrameFromCsv(d.realized_costs),
     group_data |-> d.group_data,
     group_order |-> GroupOrderOf(d.group_data, None),
     benchmark_prices |-> NoBenchmark]

FileNotFound == [raised |-> "FileNotFoundError"]

\* load(ticker) takes no local_path: fu.load_df_dict_from_csv reads its
\* default directory
LoadPath == DefaultPath

\* PortfolioData.load(ticker), from a fresh start or right after a save
Load ==
    /\ pc = "ready" \/ (pc = "returned" /\ view.call = "save")
    /\ \E ticker \in Tickers :
         LET file == files[LoadPath][ticker]
         IN  view' = Call("load", <<ticker>>,
                          IF file.saved THEN Constructed_FromDatasets(file.datasets)
                          ELSE FileNotFound)
    /\ pc' = "returned"
    /\ UNCHANGED <<fields, pnl_given, files, locals, result>>

----------------------------------------------------------------------------
(* Attribution.  The instruments' prices are observed at every step here,   *)
(* so that pct_change gives the same with and without its fill.  A          *)
(* frequency is a number of steps per period.                               *)

\* compute_cumulative_attribution
CumulativeAttribution(p, w) ==
    Frame(Instruments(p), PdCumsum(PdMultiply(PdPctChange(p), LaggedWeights(w))))

ComputeCumulativeAttribution ==
    /\ pc = "ready"
    /\ view' = Call("compute_cumulative_attribution", <<>>,
                    CumulativeAttribution(prices, weights))
    /\ pc' = "returned"
    /\ UNCHANGED <<fields, pnl_given, files, locals, result>>

\* the last rows of the periods of f steps
PeriodEnds(T, f) == [k \in 1..(T \div f) |-> k * f]

\* get_instruments_periodic_returns: ret.to_returns at freq of the NAVs that
\* ret.returns_to_nav compounds from the instruments' returns, that is the
\* return of each instrument from one period end to the next, the first
\* row missing
PeriodicReturns(p, f) ==
    LET ends == PeriodEnds(Len(p), f)
    IN  [k \in DOMAIN ends |->
            IF k = 1 THEN NaNRow(p[1])
            ELSE [i \in DOMAIN p[1] |->
                    Sub(Div(p[ends[k]][i], p[ends[k - 1]][i]), One)]]

\* variant: the weight at the end of the period itself
PeriodWeights_SameEnd(w, f) == [k \in DOMAIN PeriodEnds(Len(w), f) |-> w[PeriodEnds(Len(w), f)[k]]]

\* self.weights.reindex(index=returns_f.index, method='ffill').shift(1)
PeriodWeights(w, f) ==
    PdShift1([k \in DOMAIN PeriodEnds(Len(w), f) |-> w[PeriodEnds(Len(w), f)[k]]])

\* get_attribution_table_by_instrument(time_period=None, freq): the rows of
\* the periods after the first
AttributionTableByInstrument(p, w, f) ==
    LET portf_return == PdMultiply(PeriodicReturns(p, f), PeriodWeights(w, f))
    IN  [ends |-> Tail(PeriodEnds(Len(p), f)),
         columns |-> Instruments(p),
         rows |-> Tail(portf_return)]

AttributionFreqs == {1, 2}

GetAttributionTableByInstrument ==
    /\ pc = "ready"
    /\ \E freq \in AttributionFreqs :
         view' = Call("get_attribution_table_by_instrument", <<freq>>,
                      AttributionTableByInstrument(prices, weights, freq))
    /\ pc' = "returned"
    /\ UNCHANGED <<fields, pnl_given, files, locals, result>>

\* DataFrame.mean(axis=0): the mean over time of the values present
MeanAx0(m) ==
    [i \in DOMAIN m[1] |->
        LET present == SelectSeq([t \in DOMAIN m |-> t], LAMBDA t : ~IsNaN(m[t][i]))
        IN  IF present = <<>> THEN NaN
            ELSE Div(NpNanSum(Column(m, i), present), Num(Len(present)))]

\* ret.to_total_returns(ret.returns_to_nav(returns)): last over first price
TotalReturns(p) == [i \in DOMAIN p[1] |-> Sub(Div(p[Len(p)][i], p[1][i]), One)]

\* sort_values('Weight', ascending=False) on rows <<ticker, Weight, Asset,
\* Attribution>>, equal weights in column order
RECURSIVE SortByWeight(_)
SortByWeight(rows) ==
    IF rows = <<>> THEN <<>>
    ELSE LET top == CHOOSE k \in DOMAIN rows :
                      /\ \A j \in DOMAIN rows : ~Greater(rows[j][2], rows[k][2])
                      /\ \A j \in 1..(k - 1) : Greater(rows[k][2], rows[j][2])
         IN  <<rows[top]>>
             \o SortByWeight(SelectSeq(rows, LAMBDA r : r[1] # rows[top][1]))

\* get_instruments_performance_table(time_period=None): the mean weight, the
\* total return and their product for every instrument where the product is
\* neither zero nor missing, by descending weight
InstrumentsPerformanceTable(p, w) ==
    LET weight == MeanAx0(w)
        insts_return == TotalReturns(p)
        portf_return == VecMul(insts_return, weight)
        kept == SelectSeq(Instruments(p),
                          LAMBDA i : /\ portf_return[i] # Zero
                                     /\ ~IsNaN(portf_return[i])
                                     /\ ~IsNaN(weight[i])
                                     /\ ~IsNaN(insts_return[i]))
    IN  SortByWeight([k \in DOMAIN kept |->
            <<kept[k], weight[kept[k]], insts_return[kept[k]], portf_return[kept[k]]>>])

GetInstrumentsPerformanceTable ==
    /\ pc = "ready"
    /\ view' = Call("get_instruments_performance_table", <<>>,
                    InstrumentsPerformanceTable(prices, weights))
    /\ pc' = "returned"
    /\ UNCHANGED <<fields, pnl_given, files, locals, result>>

\* DataFrame.ffill(): a missing value takes the last value present above it
PdFfill(m) ==
    [t \in DOMAIN m |->
        [i \in DOMAIN m[t] |->
            LET seen == {k \in 1..t : ~IsNaN(m[k][i])}
            IN  IF seen = {} THEN NaN
                ELSE m[CHOOSE k \in seen : \A j \in seen : j <= k][i]]]

\* replace({0.0: np.nan})
PdReplaceZero(m) ==
    [t \in DOMAIN m |-> [i \in DOMAIN m[t] |-> IF m[t][i] = Zero THEN NaN ELSE m[t][i]]]

\* ewm_linear_model.compute_agg_factor_exposures(asset_exposures): at each
\* step and for each benchmark the instruments' loadings on it weighted by
\* the exposures; loadings[t][b][i] is what the estimator gives for
\* instrument i on benchmark b at step t
AggFactorExposures(loadings, exposures) ==
    [t \in DOMAIN exposures |->
        [b \in DOMAIN loadings[t] |->
            NpSum(VecMul(loadings[t][b], exposures[t]), Instruments(exposures))]]

\* compute_portfolio_benchmark_betas(time_period=None), the loadings being
\* those of ef.estimate_ewm_linear_model on the returns of the benchmarks
\* and of the instruments
PortfolioBenchmarkBetas(loadings, w) ==
    LET exposures == Exposures(w, None, None, FALSE, FALSE).rows
    IN  PdFfill(PdReplaceZero(AggFactorExposures(loadings, exposures)))

\* ret.to_returns(prices=benchmark_prices, freq=freq), the index being at
\* that frequency already
ToReturns(p) == PdPctChange(p)

\* variant: the betas of the same step
LaggedBetas_SameStep(betas) == betas

\* portfolio_benchmark_betas.shift(1)
LaggedBetas(betas) == PdShift1(betas)

\* variant: a missing attribution makes the row's total missing
TotalAttrib_Propagating(x_attribution) ==
    [t \in DOMAIN x_attribution |->
        NpSum(x_attribution[t], Instruments(x_attribution))]

\* x_attribution.sum(1)
TotalAttrib(x_attribution) ==
    [t \in DOMAIN x_attribution |->
        NpNanSum(x_attribution[t], Instruments(x_attribution))]

\* self.get_portfolio_nav().reindex(index=total_attrib.index,
\* method='ffill').pct_change()
NavReturns(n) ==
    [t \in DOMAIN n |-> IF t = 1 THEN NaN ELSE Sub(Div(n[t], n[t - 1]), One)]

ResidualColumn == "Residual"

\* joint_attrib of compute_portfolio_benchmark_attribution before it is
\* accumulated: a column for each benchmark, then the residual
JointAttrib(n, w, bm, loadings) ==
    LET betas == PortfolioBenchmarkBetas(loadings, w)
        x == ToReturns(ReindexFfill(bm, Len(betas)))
        x_attribution == PdMultiply(LaggedBetas(betas), x)
        total_attrib == TotalAttrib(x_attribution)
        total == NavReturns(n)
    IN  [t \in DOMAIN x_attribution |->
            Append(x_attribution[t], Sub(total[t], total_attrib[t]))]

\* compute_portfolio_benchmark_attribution(benchmark_prices,
\* time_period=None)
PortfolioBenchmarkAttribution(n, w, bm, loadings) ==
    LET joint_attrib == JointAttrib(n, w, bm, loadings)
    IN  [columns |-> [b \in DOMAIN bm.rows[1] |-> b] \o <<ResidualColumn>>,
         rows |-> PdCumsum(joint_attrib)]

----------------------------------------------------------------------------
(* Instances: what the constructor is given                                 *)

Matrices(T, N, S) == [1..T -> [1..N -> S]]

\* the dataclass constructor: every field as passed, __post_init__ still to run
ConstructedWith(n, p, u, w, ip, rc, gd, go, bm) ==
    /\ pc = "post_init"
    /\ nav = n
    /\ prices = p
    /\ units = u
    /\ weights = w
    /\ instrument_pnl = ip
    /\ pnl_given = (ip # None)
    /\ realized_costs = rc
    /\ group_data = gd
    /\ group_order = go
    /\ benchmark_prices = bm
    /\ idx = 0
    /\ avg_costs = <<>>
    /\ realized_pnl = <<>>
    /\ mtm_pnl = <<>>
    /\ trades = <<>>
    /\ zero_div = {}
    /\ result = NoResult
    /\ view = NoView
    /\ files = NoFiles

Constructed(n, p, u, w, ip) ==
    ConstructedWith(n, p, u, w, ip, None, None, None, NoBenchmark)

UnitNav(T) == [t \in 1..T |-> One]

\* long-only holdings in ticks: flat, inside the band (1), and levels whose
\* differences lie on the threshold (3 - 1 = 2) and beyond it
UnitSet == {Num(0), Num(1), Num(3), Num(6)}

PriceSet == {Num(10), Num(12)}

\* one instrument, MaxT steps, no missing price
Init ==
    \E p \in Matrices(MaxT, 1, PriceSet), u \in Matrices(MaxT, 1, UnitSet) :
        Constructed(UnitNav(MaxT), p, u, None, None)

Spec == Init /\ [][Next]_vars

\* one instrument over ClosedT steps that is flat at the first and at the last
\* step, every trade a multiple of 5 ticks; holds units = [0,10,10,5,0] at
\* prices = [10,10,12,12,15]
ClosedUnitSet == {Num(0), Num(5), Num(10)}

ClosedPriceSet == {Num(10), Num(12), Num(15)}

InitClosed ==
    \E p \in Matrices(ClosedT, 1, ClosedPriceSet),
       u \in Matrices(ClosedT, 1, ClosedUnitSet) :
        /\ u[1][1] = Zero
        /\ u[ClosedT][1] = Zero
        /\ Constructed(UnitNav(ClosedT), p, u, None, None)

SpecClosed == InitClosed /\ [][Next]_vars

\* one instrument, MaxT steps, prices that may be missing
NaNPriceSet == {Num(10), Num(12), NaN}

NaNUnitSet == {Num(0), Num(3), Num(6)}

InitNaN ==
    \E p \in Matrices(MaxT, 1, NaNPriceSet), u \in Matrices(MaxT, 1, NaNUnitSet) :
        Constructed(UnitNav(MaxT), p, u, None, None)

SpecNaN == InitNaN /\ [][Next]_vars

\* two instruments over DepT steps
DepUnitSet == {Num(0), Num(3)}

DepPriceSet == {Num(10), Num(12)}

InitDep ==
    \E p \in Matrices(DepT, 2, DepPriceSet), u \in Matrices(DepT, 2, DepUnitSet) :
        Constructed(UnitNav(DepT), p, u, None, None)

SpecDep == InitDep /\ [][Next]_vars

\* prices and weights over PnlT steps, instrument_pnl passed or left out; a
\* price may be zero or missing, a weight short, flat or fractional
PnlPriceSet == {Zero, Num(10), Num(12), NaN}

PnlWeightSet == {Num(-1), Zero, <<1, 2>>}

InitPnl ==
    \E p \in Matrices(PnlT, 1, PnlPriceSet), w \in Matrices(PnlT, 1, PnlWeightSet),
       given \in BOOLEAN :
        Constructed(UnitNav(PnlT), p, NpFull(p, Num(3)), w,
                    IF given THEN NpFull(p, Num(7)) ELSE None)

SpecPnl == InitPnl /\ [][Next]_vars

----------------------------------------------------------------------------
(* Properties of the kernel, step by step                                   *)

Cols == DOMAIN prices[1]

\* the kernel has started and its iteration for step t is over
Computed(t) == pc \in {"loop", "done"} /\ t < idx

\* the steps t > 0 whose iteration is over
LaterSteps == {t \in 1..(NumRows(prices) - 1) : Computed(t)}

Delta(t, i) == Sub(At(units, t, i), At(units, t - 1, i))

SellAt(t, i) == Less(Delta(t, i), Num(-EPS))

PurchaseAt(t, i) == Greater(Delta(t, i), Num(EPS))

\* C1: at every step t > 0 and for every instrument, realized_pnl[t,i] is
\* -delta * (prices[t,i] - avg_cost[t-1,i]) on a sell (delta < -1e-16) and
\* 0 on a purchase or a no-trade step.
C1_RealizedPnl ==
    \A t \in LaterSteps, i \in Cols :
        At(realized_pnl, t, i) =
            IF SellAt(t, i)
            THEN Mul(Neg(Delta(t, i)),
                     Sub(At(prices, t, i), At(avg_costs, t - 1, i)))
            ELSE Zero

\* a sell above the average cost has booked a gain, a purchase has booked none
C1_Witness ==
    /\ \E t \in LaterSteps, i \in Cols :
          SellAt(t, i) /\ Greater(At(realized_pnl, t, i), Zero)
    /\ \E t \in LaterSteps, i \in Cols :
          PurchaseAt(t, i) /\ At(realized_pnl, t, i) = Zero

\* C2: at every step t > 0, avg_cost[t,i] is the weighted average
\* (delta * prices[t,i] + units[t-1,i] * avg_cost[t-1,i]) / units[t,i] on a
\* purchase (delta > 1e-16) and avg_cost[t-1,i] unchanged on every sell and
\* no-trade step, also when units[t,i] is 0.
C2_AvgCost ==
    \A t \in LaterSteps, i \in Cols :
        At(avg_costs, t, i) =
            IF PurchaseAt(t, i)
            THEN Div(Add(Mul(Delta(t, i), At(prices, t, i)),
                         Mul(At(units, t - 1, i), At(avg_costs, t - 1, i))),
                     At(units, t, i))
            ELSE At(avg_costs, t - 1, i)

\* a purchase has blended a new lot into a held position, and a later full
\* exit has carried the blended cost
C2_Witness ==
    \E t \in LaterSteps, s \in LaterSteps, i \in Cols :
        /\ t < s
        /\ PurchaseAt(t, i)
        /\ Greater(At(units, t - 1, i), Zero)
        /\ At(avg_costs, t, i) # At(avg_costs, t - 1, i)
        /\ At(avg_costs, t, i) # At(prices, t, i)
        /\ At(units, s, i) = Zero
        /\ SellAt(s, i)
        /\ At(avg_costs, s, i) = At(avg_costs, t, i)

\* C3: at every step t > 0, mtm_pnl[t,i] is
\* units[t-1,i] * (prices[t,i] - avg_cost[t-1,i]) - realized_pnl[t,i].
C3_MtmPnl ==
    \A t \in LaterSteps, i \in Cols :
        At(mtm_pnl, t, i) =
            Sub(Mul(At(units, t - 1, i),
                    Sub(At(prices, t, i), At(avg_costs, t - 1, i))),
                At(realized_pnl, t, i))

\* a partial sell: part of the gain is realized, the rest stays marked to market
C3_Witness ==
    \E t \in LaterSteps, i \in Cols :
        /\ SellAt(t, i)
        /\ At(realized_pnl, t, i) # Zero
        /\ At(mtm_pnl, t, i) # Zero

\* C4: at t = 0, avg_cost[0,i] is prices[0,i] if units[0,i] > 1e-16 and 0
\* otherwise, and realized_pnl[0,i] and mtm_pnl[0,i] are 0.
C4_FirstStep ==
    Computed(0) =>
        \A i \in Cols :
            /\ At(avg_costs, 0, i) =
                  IF Greater(At(units, 0, i), Num(EPS)) THEN At(prices, 0, i) ELSE Zero
            /\ At(realized_pnl, 0, i) = Zero
            /\ At(mtm_pnl, 0, i) = Zero

\* the call is over with an initial holding priced at its first price
C4_Witness ==
    /\ pc = "done"
    /\ \E i \in Cols :
          /\ Greater(At(units, 0, i), Num(EPS))
          /\ At(avg_costs, 0, i) = At(prices, 0, i)
          /\ At(avg_costs, 0, i) # Zero

\* C5: trade_delta[t,i] = units[t,i] - units[t-1,i] for all t > 0, also when
\* the difference is inside the no-trade band, and trade_delta[0,i] = 0.
C5_TradeDelta ==
    /\ \A t \in LaterSteps, i \in Cols : At(trades, t, i) = Delta(t, i)
    /\ Computed(0) => \A i \in Cols : At(trades, 0, i) = Zero

\* a nonzero change inside the band is reported although it is no trade
C5_Witness ==
    \E t \in LaterSteps, i \in Cols :
        /\ Delta(t, i) # Zero
        /\ ~SellAt(t, i)
        /\ ~PurchaseAt(t, i)
        /\ At(trades, t, i) = Delta(t, i)

----------------------------------------------------------------------------
(* Properties of a whole call                                               *)

LastStep == NumRows(prices) - 1

RECURSIVE SumTo(_, _, _)
\* f[0, i] + ... + f[t, i]
SumTo(f, t, i) == IF t < 0 THEN Zero ELSE Add(SumTo(f, t - 1, i), At(f, t, i))

\* the cash taken out of instrument i by its trades at steps 1 .. t less the
\* cash put in: sale proceeds minus purchase cost
RECURSIVE NetCash(_, _)
NetCash(t, i) ==
    IF t < 1 THEN Zero
    ELSE Add(NetCash(t - 1, i), Mul(Neg(Delta(t, i)), At(prices, t, i)))

ScenarioUnits == <<<<Num(0)>>, <<Num(10)>>, <<Num(10)>>, <<Num(5)>>, <<Num(0)>>>>

ScenarioPrices == <<<<Num(10)>>, <<Num(10)>>, <<Num(12)>>, <<Num(12)>>, <<Num(15)>>>>

InScenario == units = ScenarioUnits /\ prices = ScenarioPrices

\* instrument i is flat, is entered by one purchase, is then held or sold
\* down, and is flat at the last step
EnteredAndClosed(i) ==
    \E e \in 1..LastStep :
        /\ \A t \in 0..(e - 1) : At(units, t, i) = Zero
        /\ PurchaseAt(e, i)
        /\ \A t \in (e + 1)..LastStep : ~Greater(Delta(t, i), Zero)
        /\ At(units, LastStep, i) = Zero

\* C6 as stated: for a position that is entered, sold down and fully closed,
\* the sum over time of realized_pnl[:,i] + mtm_pnl[:,i] is the total gain
\* from entry to the final price.
C6_SumOfBoth ==
    pc = "done" =>
        \A i \in Cols :
            EnteredAndClosed(i) =>
                Add(SumTo(realized_pnl, LastStep, i), SumTo(mtm_pnl, LastStep, i))
                    = NetCash(LastStep, i)

\* C6 as amended: for a long position that starts flat and is fully closed,
\* the sum over time of realized_pnl[:,i] plus the last mtm_pnl[.,i] (the last
\* row of total_pnl of the method; mtm_pnl is a level and is then 0) is the
\* sale proceeds minus the purchase cost; in the scenario units =
\* [0,10,10,5,0], prices = [10,10,12,12,15] realized_pnl is 10 and 25 at the two
\* sell steps, the total is 35 and the sum over time of both series is 65.
C6_ClosedPosition ==
    pc = "done" =>
        /\ \A i \in Cols :
              /\ At(result.total_pnl, LastStep, i) = NetCash(LastStep, i)
              /\ At(result.realized_pnl, LastStep, i) = SumTo(realized_pnl, LastStep, i)
              /\ At(mtm_pnl, LastStep, i) = Zero
        /\ InScenario =>
              /\ realized_pnl = <<<<Zero>>, <<Zero>>, <<Zero>>, <<Num(10)>>, <<Num(25)>>>>
              /\ At(result.total_pnl, LastStep, 1) = Num(35)
              /\ Add(SumTo(realized_pnl, LastStep, 1), SumTo(mtm_pnl, LastStep, 1))
                    = Num(65)

\* the scenario of the claim has been run to the end
C6_Witness ==
    /\ pc = "done"
    /\ InScenario
    /\ EnteredAndClosed(1)
    /\ At(result.total_pnl, LastStep, 1) = Num(35)

\* C7 as stated: the division by units[t,i] is skipped where units[t,i] is 0
\* or the step is no purchase, so no division by zero is ever performed.
C7_NoZeroDivision == zero_div = {}

\* C7 as amended: with units >= 0 and no missing price the quotient is
\* computed at every step for every instrument, also with a divisor of 0, but
\* it is selected only on a purchase, where units[t,i] > 1e-16: at a step
\* with units[t,i] = 0 avg_cost is carried unchanged, and no avg_cost is ever
\* infinite or NaN.
C7_ZeroDivisionDiscarded ==
    /\ \A t \in LaterSteps, i \in Cols :
          /\ At(units, t, i) = Zero <=> <<t, i>> \in zero_div
          /\ At(units, t, i) = Zero =>
                /\ ~PurchaseAt(t, i)
                /\ At(avg_costs, t, i) = At(avg_costs, t - 1, i)
          /\ PurchaseAt(t, i) => Greater(At(units, t, i), Num(EPS))
    /\ \A t \in 0..LastStep, i \in Cols :
          Computed(t) => IsFinite(At(avg_costs, t, i))

\* a held position was sold out: the division had a zero divisor and the
\* cost basis before the exit is still there
C7_Witness ==
    \E t \in LaterSteps, i \in Cols :
        /\ <<t, i>> \in zero_div
        /\ SellAt(t, i)
        /\ At(avg_costs, t, i) # Zero

\* C8 as stated: a NaN in avg_cost lasts only until the next purchase: at a
\* purchase step with a price that is not NaN, avg_cost is a number again.
C8_PurchaseClearsNaN ==
    \A t \in LaterSteps, i \in Cols :
        (PurchaseAt(t, i) /\ ~IsNaN(At(prices, t, i))) => ~IsNaN(At(avg_costs, t, i))

\* C8 as amended: avg_cost[t,i] is NaN exactly when avg_cost[t-1,i] is NaN or
\* step t is a purchase at a NaN price (at t = 0: a holding above 1e-16 at a
\* NaN price); a NaN price at a sell or no-trade step leaves avg_cost alone,
\* and once avg_cost is NaN it is NaN at every later step, purchases at a
\* valid price included.
C8_NaNIsPermanent ==
    /\ \A t \in LaterSteps, i \in Cols :
          IsNaN(At(avg_costs, t, i)) <=>
              \/ IsNaN(At(avg_costs, t - 1, i))
              \/ PurchaseAt(t, i) /\ IsNaN(At(prices, t, i))
    /\ Computed(0) =>
          \A i \in Cols :
              IsNaN(At(avg_costs, 0, i)) <=>
                  Greater(At(units, 0, i), Num(EPS)) /\ IsNaN(At(prices, 0, i))

\* a poisoned position was closed and re-opened at a valid price, and its
\* avg_cost is still NaN
C8_Witness ==
    \E t \in LaterSteps, i \in Cols :
        /\ IsNaN(At(avg_costs, t - 1, i))
        /\ At(units, t - 1, i) = Zero
        /\ PurchaseAt(t, i)
        /\ ~IsNaN(At(prices, t, i))
        /\ IsNaN(At(avg_costs, t, i))

\* the inputs with the cell [t, i] of prices and of units replaced
WithCell(m, t, i, v) == [m EXCEPT ![t + 1][i] = v]

SameAt(out, t, i) ==
    /\ At(out.avg_costs, t, i) = At(avg_costs, t, i)
    /\ At(out.realized_pnl, t, i) = At(realized_pnl, t, i)
    /\ At(out.mtm_pnl, t, i) = At(mtm_pnl, t, i)
    /\ At(out.trades, t, i) = At(trades, t, i)

\* C9: the outputs at [t, i] depend on prices[0..t, i] and units[0..t, i]
\* only: replacing the price or the units of any cell of another instrument
\* or of a later step leaves avg_cost, realized_pnl, mtm_pnl and trade_delta
\* at [t, i] as they are.  (Any two inputs that agree on the column prefix
\* are joined by a chain of such replacements.)
C9_ColumnPrefixOnly ==
    pc = "done" =>
        \A s \in 0..LastStep, j \in Cols :
            /\ \A pv \in DepPriceSet \ {At(prices, s, j)} :
                  \A out \in {ComputeRealizedPnl(WithCell(prices, s, j, pv), units)} :
                      \A t \in 0..LastStep, i \in Cols :
                          (j # i \/ s > t) => SameAt(out, t, i)
            /\ \A uv \in DepUnitSet \ {At(units, s, j)} :
                  \A out \in {ComputeRealizedPnl(prices, WithCell(units, s, j, uv))} :
                      \A t \in 0..LastStep, i \in Cols :
                          (j # i \/ s > t) => SameAt(out, t, i)

\* a call whose outputs differ between the instruments and over time
C9_Witness ==
    /\ pc = "done"
    /\ At(avg_costs, LastStep, 1) # At(avg_costs, LastStep, 2)
    /\ At(mtm_pnl, 1, 1) # Zero
    /\ At(realized_pnl, LastStep, 2) # Zero
    /\ At(prices, 1, 1) # At(prices, LastStep, 1)

----------------------------------------------------------------------------
(* Properties of __post_init__                                              *)

Constructs == pc # "post_init" /\ ~pnl_given

\* C10: when instrument_pnl is not passed, instrument_pnl[t,i] is
\* (prices[t,i] / prices[t-1,i] - 1) * weights[t-1,i] for t > 0, with 0 in
\* place of a NaN and 0 at t = 0; replacing a weight of step t or later does
\* not change it.
C10_LaggedWeightPnl ==
    Constructs =>
        /\ \A i \in Cols : At(instrument_pnl, 0, i) = Zero
        /\ \A t \in 1..LastStep, i \in Cols :
              LET x == Mul(Sub(Div(At(prices, t, i), At(prices, t - 1, i)), One),
                           At(weights, t - 1, i))
              IN  At(instrument_pnl, t, i) = IF IsNaN(x) THEN Zero ELSE x
        /\ \A s \in 0..LastStep, j \in Cols, wv \in PnlWeightSet :
              \A other \in {DerivedInstrumentPnl(prices, WithCell(weights, s, j, wv))} :
                  \A t \in 0..s, i \in Cols :
                      At(other, t, i) = At(instrument_pnl, t, i)

\* a derived P&L that is not 0 at a step whose own weight differs from the
\* lagged one
C10_Witness ==
    /\ Constructs
    /\ \E t \in 1..LastStep, i \in Cols :
          /\ At(instrument_pnl, t, i) # Zero
          /\ IsFinite(At(instrument_pnl, t, i))
          /\ At(weights, t, i) # At(weights, t - 1, i)

----------------------------------------------------------------------------
(* The object and its setters                                               *)

NextObject ==
    \/ PostInit
    \/ CallKernel
    \/ LoopStep
    \/ Return
    \/ Resume
    \/ SetBenchmarkPrices
    \/ SetGroupData
    \/ GetPortfolioNav
    \/ GetInstrumentsPnl
    \/ GetExposures
    \/ GetTurnover
    \/ GetCosts
    \/ GetGroupNavs
    \/ GetGroupedExposures
    \/ GetGroupedCumPnls

\* two instruments over ObjT steps: the second one's price rises, holdings
\* are constant or built up, weights are left out or long-short; group_data,
\* group_order and benchmark_prices are passed or left out
ObjPrices == [t \in 1..ObjT |-> <<Num(10), Num(9 + t)>>]

ObjUnits == {NpFull(ObjPrices, Num(3)), [t \in 1..ObjT |-> <<Num(3 * (t - 1)), Num(6)>>]}

ObjWeights == {None, [t \in 1..ObjT |-> <<One, Num(t - 2)>>]}

InitObject ==
    \E u \in ObjUnits, w \in ObjWeights,
       gd \in {None, <<2, 1>>}, go \in {None} \cup GroupOrders,
       bm \in {NoBenchmark} \cup BenchmarkFrames :
        ConstructedWith([t \in 1..ObjT |-> Num(100)], ObjPrices, u, w, None, None,
                        gd, go, bm)

SpecObject == InitObject /\ [][NextObject]_vars

\* every label that group_data uses is listed in group_order
Covers(gd, go) == \A i \in DOMAIN gd : \E k \in DOMAIN go : go[k] = gd[i]

\* the call that last set the group fields is the last call on the object
GroupsJustSet == view.call \in {"__init__", "set_group_data"}

\* C11 as stated: after construction and after any sequence of set_group_data
\* calls, with or without an explicit group_order, group_order contains every
\* distinct value of group_data.
C11_GroupOrderCovers == pc # "post_init" => Covers(group_data, group_order)

\* C11, amended: when the constructor or set_group_data is given no
\* group_order, group_order becomes the distinct values of group_data in order
\* of first appearance and so contains every one of them; an explicit
\* group_order is stored exactly as passed, whatever group_data holds.
C11_DerivedOrderCovers ==
    GroupsJustSet =>
        IF view.args[2] = None
        THEN /\ group_order = Unique(group_data)
             /\ Covers(group_data, group_order)
        ELSE group_order = view.args[2]

\* set_group_data without a group_order over instruments of two groups
C11_Witness ==
    /\ view.call = "set_group_data"
    /\ view.args[2] = None
    /\ Len(group_order) = 2
    /\ Covers(group_data, group_order)

\* a step that is the call of the named method
Calls(name) == view'.call = name /\ view' # view

\* C12: after construction, set_benchmark_prices leaves every field other than
\* benchmark_prices unchanged, and set_group_data leaves every field other than
\* group_data and group_order unchanged.
C12_SettersFrame ==
    [][/\ Calls("set_benchmark_prices") =>
            UNCHANGED <<nav, prices, weights, units, instrument_pnl, realized_costs,
                        group_data, group_order>>
       /\ Calls("set_group_data") =>
            UNCHANGED <<nav, prices, weights, units, instrument_pnl, realized_costs,
                        benchmark_prices>>]_vars

\* both setters have acted: the benchmark was set after a regrouping that the
\* constructor cannot have produced, and the grouping is still in place
C12_Witness ==
    /\ view.call = "set_benchmark_prices"
    /\ benchmark_prices # NoBenchmark
    /\ group_data = <<1, 1>>
    /\ group_order = <<2>>

\* the benchmark prices that the last call supplied, if it supplied any
Supplied == IF view.call = "__init__" THEN view.args[3] ELSE view.args[1]

BenchmarkJustSet ==
    \/ view.call = "set_benchmark_prices"
    \/ view.call = "__init__" /\ view.args[3] # NoBenchmark

\* the supplied observations at or before step t
SeenBy(bm, t) == {k \in DOMAIN bm.index : bm.index[k] <= t}

\* C13: whenever benchmark_prices is set, by the constructor or by
\* set_benchmark_prices, its index is nav's index and its row at each step t
\* is the supplied row with the latest time at or before t, a missing row
\* when nothing was supplied up to t; no row comes from after t.
C13_ForwardFillOnly ==
    BenchmarkJustSet =>
        /\ benchmark_prices.index = [t \in DOMAIN nav |-> t - 1]
        /\ \A t \in 0..(Len(nav) - 1) :
              LET row == benchmark_prices.rows[t + 1]
                  seen == SeenBy(Supplied, t)
              IN  IF seen = {} THEN \A b \in DOMAIN row : IsNaN(row[b])
                  ELSE \E k \in seen :
                          /\ \A j \in seen : Supplied.index[j] <= Supplied.index[k]
                          /\ row = Supplied.rows[k]

\* set_benchmark_prices with observations at steps 1 and 2 only: nothing at
\* step 0, the observation of step 1 at step 1, that of step 2 at step 2
C13_Witness ==
    /\ view.call = "set_benchmark_prices"
    /\ Supplied.index = <<1, 2>>
    /\ IsNaN(benchmark_prices.rows[1][1])
    /\ benchmark_prices.rows[2] = Supplied.rows[1]
    /\ benchmark_prices.rows[3] = Supplied.rows[2]

\* the getters of the object: the kernel call apart, each returns in one step
GetterNames ==
    {"get_portfolio_nav", "get_instruments_pnl", "get_exposures", "get_turnover",
     "get_costs", "get_group_navs", "get_grouped_exposures", "get_grouped_cum_pnls"}

\* a step of a getter call: a view is returned, or compute_realized_pnl runs
GetterStep ==
    \/ pc = "ready" /\ pc' = "returned" /\ view'.call \in GetterNames
    \/ pc' \in {"loop", "done"}

\* the returned view shows the fields as they are now: nav itself, the rows
\* of instrument_pnl and of weights, and one column per label of group_order
\* in a grouped view
Reflects ==
    /\ view.call = "get_portfolio_nav" => view.value = nav
    /\ view.call = "get_instruments_pnl" =>
          \A t \in DOMAIN instrument_pnl :
              instrument_pnl[t] = IF view.args[1] THEN Tail(view.value.rows[t])
                                  ELSE view.value.rows[t]
    /\ view.call = "get_exposures" =>
          IF view.args[1] THEN view.value.columns = TotalIf(view.args[2]) \o group_order
          ELSE view.value.rows = weights
    /\ (view.call = "get_turnover" /\ ~view.args[1] /\ view.args[2]) =>
          view.value.columns = TotalIf(view.args[4]) \o group_order
    /\ (view.call = "get_costs" /\ ~view.args[1] /\ view.args[2]) =>
          view.value.columns = TotalIf(view.args[3]) \o group_order

\* C14: the derived views are computed on demand and never cached: every
\* getter call (get_portfolio_nav, get_instruments_pnl, get_exposures,
\* get_turnover, get_costs, compute_realized_pnl) leaves every field
\* unchanged, and the view it returns, also after a setter, shows the fields
\* as they are at the call.
C14_GettersPure == [][GetterStep => (UNCHANGED fields /\ Reflects')]_vars

\* get_exposures is called after set_group_data has put both instruments in
\* group 2: the grouped view has that one column
C14_Witness ==
    /\ pc = "returned"
    /\ view.call = "get_exposures"
    /\ view.args = <<TRUE, FALSE>>
    /\ group_data = <<2, 2>>
    /\ view.value.columns = <<2>>
    /\ view.value.rows = [t \in DOMAIN weights |-> <<Add(weights[t][1], weights[t][2])>>]

----------------------------------------------------------------------------
(* Grouped views                                                            *)

NextGrouped ==
    \/ PostInit
    \/ Resume
    \/ SetGroupData
    \/ GetExposures
    \/ GetTurnover
    \/ GetCosts
    \/ GetGroupNavs
    \/ GetGroupedExposures
    \/ GetGroupedCumPnls

\* two instruments over GrpT steps.  The weights of a step are long-short,
\* flat and long, short and missing, both long, both missing or both short;
\* prices move at every step; the holdings are sold out at the second step;
\* costs are charged on the first instrument; instrument_pnl is derived or
\* passed with a missing value
GrpWeightRows ==
    {<<<<1, 2>>, Num(-1)>>, <<Zero, <<1, 2>>>>, <<Num(-1), NaN>>,
     <<<<1, 2>>, <<1, 2>>>>, <<NaN, NaN>>, <<Num(-1), Num(-1)>>}

GrpPrices == [t \in 1..GrpT |-> <<Num(9 + t), Num(13 - t)>>]

GrpUnits ==
    [t \in 1..GrpT |->
        IF t = 1 THEN <<Num(3), Zero>>
        ELSE IF t = 2 THEN <<Zero, Zero>> ELSE <<Num(6), Num(3)>>]

GrpCosts == [t \in 1..GrpT |-> <<One, Zero>>]

GrpPnl == [t \in 1..GrpT |-> <<IF t = 1 THEN NaN ELSE <<1, 10>>, <<-1, 5>>>>]

InitGrouped ==
    \E w \in [1..GrpT -> GrpWeightRows], ip \in {None, GrpPnl} :
        ConstructedWith([t \in 1..GrpT |-> Num(100)], GrpPrices, GrpUnits, w, ip,
                        GrpCosts, None, None, NoBenchmark)

SpecGrouped == InitGrouped /\ [][NextGrouped]_vars

\* group_order lists the groups of group_data: each label once, each with at
\* least one instrument, and every instrument in a listed group
Partition(gd, go) ==
    /\ Covers(gd, go)
    /\ \A k \in DOMAIN go : \E i \in DOMAIN gd : gd[i] = go[k]
    /\ \A j, k \in DOMAIN go : go[j] = go[k] => j = k

\* in every row of a grouped table with a total: the group columns add up
\* to the total column
GroupsSumToTotal(frame) ==
    /\ frame.columns[1] = TotalColumn
    /\ \A t \in DOMAIN frame.rows :
          NpSum(frame.rows[t], [k \in 1..(Len(frame.columns) - 1) |-> k + 1])
              = frame.rows[t][1]

\* C15: when group_order partitions the instruments, the grouped tables with
\* a total of get_exposures, get_turnover and get_costs, and the grouped P&L
\* that get_group_navs compounds, have at every step a total column that is
\* the sum over all instruments and equals the sum of the group columns.
C15_GroupsSumToTotal ==
    (pc = "returned" /\ Partition(group_data, group_order)) =>
        /\ (view.call = "get_exposures" /\ view.args = <<TRUE, TRUE>>) =>
              /\ GroupsSumToTotal(view.value)
              /\ \A t \in DOMAIN weights :
                    view.value.rows[t][1] = NpNanSum(weights[t], Instruments(weights))
        /\ (view.call = "get_turnover" /\ ~view.args[1] /\ view.args[2] /\ view.args[4]) =>
              GroupsSumToTotal(view.value)
        /\ (view.call = "get_costs" /\ ~view.args[1] /\ view.args[2] /\ view.args[3]) =>
              GroupsSumToTotal(view.value)
        /\ view.call = "get_group_navs" =>
              /\ GroupsSumToTotal(GroupedPnl(instrument_pnl, group_data, group_order))
              /\ Len(view.value.columns) = Len(group_order) + 1

\* get_exposures, grouped with a total, over two groups of one instrument:
\* short 1 in the first listed group, long 1/2 in the second, total -1/2
C15_Witness ==
    /\ pc = "returned"
    /\ view.call = "get_exposures"
    /\ view.args = <<TRUE, TRUE>>
    /\ Partition(group_data, group_order)
    /\ group_order = <<2, 1>>
    /\ view.value.rows[1] = <<<<-1, 2>>, Num(-1), <<1, 2>>>>

\* in every row of every group's table: 'Net Long' + 'Net Short' = 'Total'
LongPlusShortIsTotal(tables) ==
    \A k \in DOMAIN tables : \A t \in DOMAIN tables[k].rows :
        LET row == tables[k].rows[t]
        IN  Add(row[2], row[3]) = row[1]

\* C16: in get_grouped_exposures, for every group and every step, 'Net Long'
\* (the sum of the group's positive weights, never negative) plus 'Net Short'
\* (the sum of its negative weights, never positive) equals the group's
\* 'Total'.
C16_NetLongPlusNetShort ==
    (pc = "returned" /\ view.call = "get_grouped_exposures") =>
        /\ LongPlusShortIsTotal(view.value.agg)
        /\ \A k \in DOMAIN view.value.agg : \A t \in DOMAIN view.value.agg[k].rows :
              /\ ~Less(view.value.agg[k].rows[t][2], Zero)
              /\ ~Greater(view.value.agg[k].rows[t][3], Zero)

\* one group holds a long and a short instrument: 1/2 long, 1 short, total
\* -1/2
C16_Witness ==
    /\ pc = "returned"
    /\ view.call = "get_grouped_exposures"
    /\ \E k \in DOMAIN view.value.agg :
          view.value.agg[k].rows[1] = <<<<-1, 2>>, <<1, 2>>, Num(-1)>>

\* C17 as stated: in get_grouped_cum_pnls, for every group and every step,
\* cumulative 'Net Long' P&L plus cumulative 'Net Short' P&L equals the
\* group's cumulative 'Total' P&L.
C17_CumPnlLongPlusShort ==
    (pc = "returned" /\ view.call = "get_grouped_cum_pnls") =>
        LongPlusShortIsTotal(view.value.agg)

\* one instrument over TrnT steps, held long, short or not at all, at a price
\* of either sign
TrnUnitSet == {Num(-3), Zero, Num(3)}

TrnPriceSet == {Num(-10), Num(10)}

InitTurnover ==
    \E p \in Matrices(TrnT, 1, TrnPriceSet), u \in Matrices(TrnT, 1, TrnUnitSet) :
        Constructed([t \in 1..TrnT |-> Num(100)], p, u, None, None)

SpecTurnover == InitTurnover /\ [][NextGrouped]_vars

\* C18 as stated: no value of the table that get_turnover returns is
\* negative, whatever the inputs and the choice of is_agg, is_grouped,
\* add_total, roll_period and freq (a missing value is not negative).
C18_TurnoverNonNegative ==
    (pc = "returned" /\ view.call = "get_turnover") =>
        \A t \in DOMAIN view.value.rows : \A c \in DOMAIN view.value.rows[t] :
            ~Less(view.value.rows[t][c], Zero)

----------------------------------------------------------------------------
(* Attribution                                                              *)

\* benchmark prices of two benchmarks: observed from the first step, from
\* the second step, and with the second benchmark unobserved at the first
AttBenchmarks ==
    LET row(t) == <<Num(90 + 10 * t), Num(50 - 10 * (t % 2))>>
    IN  {[index |-> [t \in 1..AttT |-> t - 1], rows |-> [t \in 1..AttT |-> row(t)]],
         [index |-> <<1, 2>>, rows |-> <<row(1), row(2)>>],
         [index |-> [t \in 1..AttT |-> t - 1],
          rows |-> [t \in 1..AttT |-> IF t = 1 THEN <<row(1)[1], NaN>> ELSE row(t)]]}

\* what the estimator gives, constant over time: every instrument loads one
\* on both benchmarks, or each instrument loads on its own benchmark
AttLoadings ==
    {[t \in 1..AttT |-> <<<<One, One>>, <<One, One>>>>],
     [t \in 1..AttT |-> <<<<One, Zero>>, <<Zero, Num(2)>>>>]}

ComputePortfolioBenchmarkAttribution ==
    /\ pc = "ready"
    /\ \E bm \in AttBenchmarks, loadings \in AttLoadings :
         view' = Call("compute_portfolio_benchmark_attribution", <<bm, loadings>>,
                      PortfolioBenchmarkAttribution(nav, weights, bm, loadings))
    /\ pc' = "returned"
    /\ UNCHANGED <<fields, pnl_given, files, locals, result>>

NextAttribution ==
    \/ PostInit
    \/ Resume
    \/ ComputeCumulativeAttribution
    \/ GetAttributionTableByInstrument
    \/ GetInstrumentsPerformanceTable
    \/ ComputePortfolioBenchmarkAttribution

AttWeightSet == {Zero, Norm(1, 2)}

AttNav == [t \in 1..AttT |-> Num(100 + 10 * (t % 3))]

AttPrices ==
    {[t \in 1..AttT |-> <<Num(10 + 2 * (t % 2)), Num(10 + t)>>],
     [t \in 1..AttT |-> <<Num(10 + t), Num(20 - 5 * (t % 2))>>]}

InitAttribution ==
    \E p \in AttPrices, w \in Matrices(AttT, 2, AttWeightSet) :
        Constructed(AttNav, p, [t \in 1..AttT |-> <<One, One>>], w, None)

SpecAttribution == InitAttribution /\ [][NextAttribution]_vars

\* the sum of the values present in a row, missing where none is present
RowSum(row) ==
    IF \A c \in DOMAIN row : IsNaN(row[c]) THEN NaN
    ELSE NpNanSum(row, [c \in DOMAIN row |-> c])

BenchmarkAttributionReturned ==
    pc = "returned" /\ view.call = "compute_portfolio_benchmark_attribution"

\* C19: in compute_portfolio_benchmark_attribution, with benchmark prices
\* observed at every step from their first observation on, at each step the
\* residual plus the attributions to the benchmarks (beta of the step
\* before times the benchmark's return, a benchmark without beta or return
\* at a step being attributed nothing) is the return of the portfolio NAV
\* over the step, and the row sum of the returned cumulative table is the
\* cumulative sum of the NAV returns; at the first step, where the NAV has
\* no return, both are missing.
C19_AttributionIdentity ==
    BenchmarkAttributionReturned =>
        LET step == JointAttrib(nav, weights, view.args[1], view.args[2])
            total == NavReturns(nav)
            cum == CumsumCol(total, 1, Zero)
        IN  /\ DOMAIN view.value.rows = DOMAIN nav
            /\ \A t \in DOMAIN nav :
                 /\ RowSum(step[t]) = total[t]
                 /\ RowSum(view.value.rows[t]) = cum[t]

\* a step at which the first benchmark is attributed something, the second
\* nothing for want of a beta or a return, and the residual is not zero
C19_Witness ==
    /\ BenchmarkAttributionReturned
    /\ \E t \in DOMAIN view.value.rows :
         LET step == JointAttrib(nav, weights, view.args[1], view.args[2])[t]
         IN  /\ t > 1
             /\ ~IsNaN(step[1]) /\ step[1] # Zero
             /\ IsNaN(step[2])
             /\ ~IsNaN(step[3]) /\ step[3] # Zero

\* the time steps, from 0
Steps == 0..(Len(nav) - 1)

\* the rows of the steps 0 .. t
UpTo(rows, t) == SubSeq(rows, 1, t + 1)

\* the weights with the weight of one instrument at one step altered
AlteredWeights(s, i, v) == WithCell(weights, s, i, v)

\* the values an altered weight and an altered loading take
AttAlteredWeightSet == {Zero, Norm(1, 2), Num(-1)}

AttLoadingSet == {Zero, One, Num(2)}

\* no row up to step t of compute_cumulative_attribution changes when a
\* weight of step t or later is altered
LagInCumulativeAttribution ==
    (pc = "returned" /\ view.call = "compute_cumulative_attribution") =>
        \A s \in Steps, i \in DOMAIN weights[1], v \in AttAlteredWeightSet :
            UpTo(CumulativeAttribution(prices, AlteredWeights(s, i, v)).rows, s)
                = UpTo(view.value.rows, s)

\* no row of get_attribution_table_by_instrument of a period that ends at
\* step s or before changes when a weight of step s is altered
LagInAttributionTable ==
    (pc = "returned" /\ view.call = "get_attribution_table_by_instrument") =>
        \A s \in Steps, i \in DOMAIN weights[1], v \in AttAlteredWeightSet :
            LET altered == AttributionTableByInstrument(
                               prices, AlteredWeights(s, i, v), view.args[1])
            IN  /\ altered.ends = view.value.ends
                /\ \A k \in DOMAIN view.value.ends :
                     view.value.ends[k] - 1 <= s =>
                         altered.rows[k] = view.value.rows[k]

\* no row up to step s of compute_portfolio_benchmark_attribution changes
\* when a weight or a loading of step s, and with it the beta of step s,
\* is altered
LagInBenchmarkAttribution ==
    BenchmarkAttributionReturned =>
        \A s \in Steps, i \in DOMAIN weights[1] :
            /\ \A v \in AttAlteredWeightSet :
                 UpTo(PortfolioBenchmarkAttribution(
                          nav, AlteredWeights(s, i, v),
                          view.args[1], view.args[2]).rows, s)
                     = UpTo(view.value.rows, s)
            /\ \A v \in AttLoadingSet, b \in DOMAIN view.args[2][1] :
                 UpTo(PortfolioBenchmarkAttribution(
                          nav, weights, view.args[1],
                          [view.args[2] EXCEPT ![s + 1][b][i] = v]).rows, s)
                     = UpTo(view.value.rows, s)

PerformanceTableReturned ==
    pc = "returned" /\ view.call = "get_instruments_performance_table"

\* the table of get_instruments_performance_table, which attributes the
\* performance of the period that ends at the last step, does not change
\* when a weight of the last step is altered
LagInPerformanceTable ==
    PerformanceTableReturned =>
        \A i \in DOMAIN weights[1], v \in AttAlteredWeightSet :
            InstrumentsPerformanceTable(prices, AlteredWeights(Len(nav) - 1, i, v))
                = view.value

\* every row of get_instruments_performance_table carries the mean of the
\* instrument's weights over all the steps, the last included, and
\* attributes that mean times the instrument's return over the period
AverageWeightInPerformanceTable ==
    PerformanceTableReturned =>
        \A k \in DOMAIN view.value :
            LET row == view.value[k]
                column == Column(weights, row[1])
            IN  /\ row[2] = Div(NpSum(column, [t \in DOMAIN column |-> t]),
                                Num(Len(column)))
                /\ row[3] = Sub(Div(prices[Len(prices)][row[1]], prices[1][row[1]]), One)
                /\ row[4] = Mul(row[2], row[3])

----------------------------------------------------------------------------
(* Persistence                                                              *)

NextPersistence ==
    \/ PostInit
    \/ Resume
    \/ Save
    \/ Load

SpecPersistence == InitObject /\ [][NextPersistence]_vars

\* the loaded object has the fields of this object that a round trip is to
\* keep
SameAsLoaded(loaded) ==
    /\ "nav" \in DOMAIN loaded
    /\ loaded.nav = nav
    /\ loaded.prices = prices
    /\ loaded.weights = weights
    /\ loaded.units = units
    /\ loaded.instrument_pnl = instrument_pnl
    /\ loaded.realized_costs = realized_costs
    /\ loaded.group_data = group_data
    /\ loaded.group_order = group_order

LoadAfterSave ==
    /\ view.call = "save"
    /\ view'.call = "load"
    /\ view'.args[1] = view.args[1]

\* C21 as stated: save(ticker, local_path) followed by load(ticker) gives an
\* object with the same nav, prices, weights, units, instrument_pnl,
\* realized_costs, group_data and group_order, whatever the object and
\* whatever the local_path.
C21_SaveLoadRoundTrip == [][LoadAfterSave => SameAsLoaded(view'.value)]_vars

----------------------------------------------------------------------------
(* Regime shadows                                                           *)

NextPlots ==
    \/ PostInit
    \/ Resume
    \/ SetBenchmarkPrices
    \/ AddRegimeShadows
    \/ PlotNav
    \/ PlotGroupNav
    \/ PlotRollingPerf
    \/ PlotBenchmarkBetas

SpecPlots == InitObject /\ [][NextPlots]_vars

ShadowCalls ==
    {"add_regime_shadows", "plot_nav", "plot_group_nav", "plot_rolling_perf",
     "plot_benchmark_betas"}

\* a call that asked for a regime overlay has returned
ShadowsRequested ==
    pc = "returned" /\ view.call \in ShadowCalls /\ view.args[1] # None

\* C22: a call of add_regime_shadows, or of plot_nav, plot_group_nav,
\* plot_rolling_perf or plot_benchmark_betas with a regime_benchmark, ends
\* with a ValueError and without shadows while benchmark_prices is unset,
\* and does not end with that error once the benchmark prices are set.
C22_ShadowsNeedBenchmark ==
    ShadowsRequested =>
        IF benchmark_prices = NoBenchmark
        THEN view.value.raised = "ValueError" /\ view.value.shadows = None
        ELSE view.value.raised # "ValueError"

\* plot_nav with a regime benchmark on an object without benchmark prices:
\* the NAV was plotted and the call raised
C22_Witness ==
    /\ ShadowsRequested
    /\ view.call = "plot_nav"
    /\ benchmark_prices = NoBenchmark
    /\ view.value.drawn = <<"nav">>
    /\ view.value.raised = "ValueError"

----------------------------------------------------------------------------
(* Turnover at zero exposure                                                *)

\* get_turnover has returned the table by instrument, neither aggregated,
\* grouped, rolled nor resampled, without a total
InstrumentTurnoverReturned ==
    /\ pc = "returned"
    /\ view.call = "get_turnover"
    /\ view.args = <<FALSE, FALSE, None, FALSE, None>>

\* C23 as stated: at every step where the sum over the instruments of
\* |units * prices| is zero, the turnover of every instrument at the step is
\* not-a-number, also when the position was liquidated at that step.
C23_ZeroExposureIsNaN ==
    InstrumentTurnoverReturned =>
        \A t \in DOMAIN units :
            AbsExposure(units, prices)[t] = Zero =>
                \A i \in DOMAIN units[t] : IsNaN(view.value.rows[t][i])

----------------------------------------------------------------------------
(* The kernel: levels, conservation and the cost basis                      *)

\* the unrealized gain of the position held after step t against its
\* average cost after the step
GainAtCost(t, i) ==
    Mul(At(units, t, i), Sub(At(prices, t, i), At(avg_costs, t, i)))

\* the change of units at step t is zero or larger than 1e-16 in size
BeyondBand(t, i) == Delta(t, i) = Zero \/ PurchaseAt(t, i) \/ SellAt(t, i)

\* C24 as stated: with units >= 0 and no missing prices, at every step
\* t > 0 mtm_pnl[t,i] is units[t,i] * (prices[t,i] - avg_cost[t,i]).
C24_MtmIsLevel ==
    \A t \in LaterSteps, i \in Cols : At(mtm_pnl, t, i) = GainAtCost(t, i)

\* C24, amended: with units >= 0 and no missing prices, at every step t > 0
\* at which the change of units[.,i] is zero or larger than 1e-16 in size,
\* mtm_pnl[t,i] is units[t,i] * (prices[t,i] - avg_cost[t,i]), a level; at
\* a step with a nonzero change of at most 1e-16 it is
\* units[t-1,i] * (prices[t,i] - avg_cost[t,i]).
C24_MtmIsLevelBeyondBand ==
    \A t \in LaterSteps, i \in Cols :
        At(mtm_pnl, t, i) =
            IF BeyondBand(t, i) THEN GainAtCost(t, i)
            ELSE Mul(At(units, t - 1, i),
                     Sub(At(prices, t, i), At(avg_costs, t, i)))

\* a purchase that adds to a position held at another cost, with a gain
\* carried after the step
C24_Witness ==
    \E t \in LaterSteps, i \in Cols :
        /\ PurchaseAt(t, i)
        /\ Greater(At(units, t - 1, i), Zero)
        /\ At(avg_costs, t, i) # At(prices, t, i)
        /\ At(mtm_pnl, t, i) # Zero

\* up to step t every nonzero trade of instrument i, the initial holding
\* included, is larger than 1e-16
TradesBeyondBand(t, i) ==
    /\ At(units, 0, i) = Zero \/ Greater(At(units, 0, i), Num(EPS))
    /\ \A s \in 1..t : Delta(s, i) = Zero \/ PurchaseAt(s, i) \/ SellAt(s, i)

\* the value of the holding at step t plus the sale proceeds less the
\* purchase cost up to t, the initial holding bought at prices[0,i]
ValueAndCash(t, i) ==
    Sub(Add(Mul(At(units, t, i), At(prices, t, i)), NetCash(t, i)),
        Mul(At(units, 0, i), At(prices, 0, i)))

\* C25: with units >= 0, no missing prices and every nonzero trade larger
\* than 1e-16 (the initial holding counted as a trade at prices[0,i]), at
\* every step t the cumulative realized_pnl up to t plus mtm_pnl[t,i] is
\* units[t,i] * prices[t,i] plus the sale proceeds minus the purchase cost
\* up to t, and this is total_pnl[t,i] of the method; at a step where the
\* position is closed it is the sale proceeds minus the purchase cost.
C25_CashConservation ==
    /\ \A i \in Cols, t \in {s \in 0..LastStep : Computed(s)} :
          TradesBeyondBand(t, i) =>
              Add(SumTo(realized_pnl, t, i), At(mtm_pnl, t, i)) = ValueAndCash(t, i)
    /\ pc = "done" =>
          \A i \in Cols, t \in 0..LastStep :
              TradesBeyondBand(t, i) =>
                  /\ At(result.total_pnl, t, i) = ValueAndCash(t, i)
                  /\ At(units, t, i) = Zero =>
                        At(result.total_pnl, t, i) =
                            Sub(NetCash(t, i), Mul(At(units, 0, i), At(prices, 0, i)))

\* an initial holding that is added to at another price, partly sold and
\* then closed, with a total P&L that is not zero
C25_Witness ==
    /\ pc = "done"
    /\ TradesBeyondBand(LastStep, 1)
    /\ Greater(At(units, 0, 1), Zero)
    /\ \E t \in 1..LastStep : PurchaseAt(t, 1) /\ At(avg_costs, t, 1) # At(prices, t, 1)
    /\ At(units, LastStep, 1) = Zero
    /\ At(result.total_pnl, LastStep, 1) # Zero

\* instrument i has been held at some step up to t
HeldUpTo(t, i) == \E s \in 0..t : Greater(At(units, s, i), Zero)

\* the prices at which units of instrument i were acquired up to step t: the
\* first price for an initial holding, and the prices of the purchase steps
Acquired(t, i) ==
    {At(prices, 0, i) : s \in {s \in {0} : Greater(At(units, 0, i), Zero)}}
        \cup {At(prices, s, i) : s \in {s \in 1..t : PurchaseAt(s, i)}}

\* avg_cost[t,i] is at least the lowest and at most the highest of them
WithinAcquired(t, i) ==
    /\ \E a \in Acquired(t, i) : ~Greater(a, At(avg_costs, t, i))
    /\ \E a \in Acquired(t, i) : ~Less(a, At(avg_costs, t, i))

ComputedSteps == {t \in 0..LastStep : Computed(t)}

\* C26 as stated: with units >= 0 and positive prices, once instrument i
\* has been held at some step up to t, avg_cost[t,i] lies between the lowest
\* and the highest price at which units were acquired up to t, and avg_cost
\* is never negative.
C26_AvgCostWithinAcquired ==
    \A t \in ComputedSteps, i \in Cols :
        /\ ~Less(At(avg_costs, t, i), Zero)
        /\ HeldUpTo(t, i) => WithinAcquired(t, i)

\* C26, amended: the same for the instruments whose every nonzero change of
\* units up to t, the initial holding included, is larger than 1e-16; a
\* holding of at most 1e-16 is carried at avg_cost 0 and drags the average
\* cost of the next purchase below the prices paid.  avg_cost is never
\* negative in either case.
C26_AvgCostWithinAcquiredBeyondBand ==
    \A t \in ComputedSteps, i \in Cols :
        /\ ~Less(At(avg_costs, t, i), Zero)
        /\ (HeldUpTo(t, i) /\ TradesBeyondBand(t, i)) => WithinAcquired(t, i)

\* an average cost strictly between two prices paid, kept after the exit
C26_Witness ==
    \E t \in ComputedSteps, i \in Cols :
        /\ TradesBeyondBand(t, i)
        /\ At(units, t, i) = Zero
        /\ \E a \in Acquired(t, i) : Less(a, At(avg_costs, t, i))
        /\ \E a \in Acquired(t, i) : Greater(a, At(avg_costs, t, i))

\* the position in instrument i is closed at step e
ExitAt(e, i) ==
    /\ e >= 1
    /\ Greater(At(units, e - 1, i), Zero)
    /\ At(units, e, i) = Zero

\* step s is the first purchase after an exit, from a position of zero
ReentryAt(s, i) ==
    /\ s >= 1
    /\ At(units, s - 1, i) = Zero
    /\ PurchaseAt(s, i)
    /\ \E e \in 1..(s - 1) : ExitAt(e, i)

\* avg_cost keeps its value of before the exit on the no-trade steps that
\* follow the exit
BasisKeptAfterExit ==
    \A e \in ComputedSteps, r \in ComputedSteps, i \in Cols :
        (ExitAt(e, i) /\ r >= e /\ \A s \in (e + 1)..r : Delta(s, i) = Zero) =>
            At(avg_costs, r, i) = At(avg_costs, e - 1, i)

\* C27 as stated: a full exit leaves avg_cost at its value of before the
\* exit on every following no-trade step, and at the first later purchase
\* from a zero position avg_cost is the price of that step, whatever the
\* earlier cost basis was.
C27_ReentryResets ==
    /\ BasisKeptAfterExit
    /\ \A s \in ComputedSteps, i \in Cols :
          ReentryAt(s, i) => At(avg_costs, s, i) = At(prices, s, i)

\* C27, amended: the same where the earlier cost basis is a number; a cost
\* basis that is not-a-number (units were bought at a missing price) is
\* kept through the exit and through the re-entry as well.
C27_ReentryResetsNumberBasis ==
    /\ BasisKeptAfterExit
    /\ \A s \in ComputedSteps, i \in Cols :
          ReentryAt(s, i) =>
              At(avg_costs, s, i) =
                  IF IsNaN(At(avg_costs, s - 1, i)) THEN NaN ELSE At(prices, s, i)

\* a position bought at one price, closed, left flat for a step and entered
\* again at another price
C27_Witness ==
    \E s \in ComputedSteps, i \in Cols :
        /\ ReentryAt(s, i)
        /\ s >= 3
        /\ ExitAt(s - 2, i)
        /\ ~IsNaN(At(avg_costs, s - 1, i))
        /\ At(avg_costs, s - 1, i) # At(prices, s, i)
        /\ At(avg_costs, s, i) = At(prices, s, i)

----------------------------------------------------------------------------
(* The two definitions of set_group_data                                    *)

\* C28: the later definition of set_group_data is in effect: a call without
\* group_order stores the group_data and replaces group_order by the
\* distinct values of the new group_data in order of first appearance,
\* whatever group_order was before; a call with a group_order stores that
\* order as given.
C28_LaterDefinitionInEffect ==
    [][Calls("set_group_data") =>
          /\ group_data' = view'.args[1]
          /\ group_order' = IF view'.args[2] = None THEN Unique(view'.args[1])
                            ELSE view'.args[2]]_vars

\* set_group_data without group_order has put both instruments into group 1:
\* group_order is the one label, which no constructor call leaves
C28_Witness ==
    /\ pc = "returned"
    /\ view.call = "set_group_data"
    /\ view.args[2] = None
    /\ group_data = <<1, 1>>
    /\ group_order = <<1>>

----------------------------------------------------------------------------
(* The realized P&L of a period                                             *)

NextPeriod ==
    \/ PostInit
    \/ Resume
    \/ ComputeRealizedPnlIn

PerUnitSet == {Num(0), Num(3), Num(6)}

PerPriceSet == {Num(10), Num(12)}

InitPeriod ==
    \E p \in Matrices(PerT, 1, PerPriceSet), u \in Matrices(PerT, 1, PerUnitSet) :
        Constructed(UnitNav(PerT), p, u, None, None)

SpecPeriod == InitPeriod /\ [][NextPeriod]_vars

\* compute_realized_pnl has returned for a period <<first, last>>
PeriodReturned ==
    /\ pc = "returned"
    /\ view.call = "compute_realized_pnl"
    /\ view.args[1] # None

\* f[first, i] + ... + f[t, i]
RECURSIVE SumFrom(_, _, _, _)
SumFrom(f, first, t, i) ==
    IF t < first THEN Zero ELSE Add(SumFrom(f, first, t - 1, i), At(f, t, i))

\* C29: compute_realized_pnl with a time_period does not restart the
\* recurrence at the start of the period: the rows of avg_costs, mtm_pnl and
\* trades it returns are the rows of the computation over the whole
\* history, realized_pnl is the running sum of the realized P&L of the
\* steps from the first row of the period on, and total_pnl is that sum
\* plus mtm_pnl at the row.
C29_PeriodOfFullHistory ==
    PeriodReturned =>
        \A out \in {view.value}, full \in {ComputeRealizedPnl(prices, units)} :
            LET first == view.args[1][1]
                last == view.args[1][2]
            IN  /\ Len(out.avg_costs) = last - first + 1
                /\ \A t \in first..last, i \in DOMAIN prices[1] :
                     LET k == t - first
                     IN  /\ At(out.avg_costs, k, i) = At(full.avg_costs, t, i)
                         /\ At(out.mtm_pnl, k, i) = At(full.mtm_pnl, t, i)
                         /\ At(out.trades, k, i) = At(full.trades, t, i)
                         /\ At(out.realized_pnl, k, i)
                               = SumFrom(full.realized_pnl, first, t, i)
                         /\ At(out.total_pnl, k, i)
                               = Add(SumFrom(full.realized_pnl, first, t, i),
                                     At(full.mtm_pnl, t, i))

\* a period that starts after a purchase and a first sell: the cost basis
\* at its first row is not what the kernel gives on the period alone, and
\* the realized P&L of before the period is left out of the running sum
C29_Witness ==
    /\ PeriodReturned
    /\ view.args[1][1] >= 2
    /\ \A alone \in {ComputeRealizedPnl(Locate(prices, view.args[1]),
                                        Locate(units, view.args[1]))} :
          /\ alone.avg_costs # view.value.avg_costs
          /\ alone.mtm_pnl # view.value.mtm_pnl
    /\ \E t \in 1..(view.args[1][1] - 1) :
          At(ComputeRealizedPnl(prices, units).realized_pnl, t, 1) # Zero
    /\ At(view.value.realized_pnl, 0, 1) # Zero

====
